---- MODULE Spec2Model ----
(***************************************************************************)
(* State-machine model of the StockFlow web client: the director workflow  *)
(* (App + ResultDisplay + FileUpload), the gateway calls it keeps in       *)
(* flight, and the style library of WallpaperGenerator.                    *)
(***************************************************************************)
EXTENDS Integers, Sequences, FiniteSets, Bags, TLC

(***************************************************************************)
(* Bounds of the model.                                                    *)
(***************************************************************************)
MaxCalls == 2
MaxEncodes == 1
MaxFeedbackLen == 3
MaxTasks == 1
MaxStyles == 2
MaxClock == 2

(***************************************************************************)
(* Values.                                                                 *)
(***************************************************************************)
None == "null"
Absent == "undefined"

\* FileUpload.tsx:16  20 * 1024 * 1024
MaxFileSize == 20971520

ImagePrefix == <<"i", "m", "a", "g", "e", "/">>
VideoPrefix == <<"v", "i", "d", "e", "o", "/">>

MimeJpeg == <<"i", "m", "a", "g", "e", "/", "j", "p", "g">>
MimeMp4 == <<"v", "i", "d", "e", "o", "/", "m", "p", "4">>
MimeText == <<"t", "e", "x", "t", "/", "p", "l", "a", "i", "n">>
MimeBare == <<"i", "m", "a", "g", "e">>
MimeNone == <<>>

\* String.prototype.startsWith
StartsWith(s, p) == Len(s) >= Len(p) /\ SubSeq(s, 1, Len(p)) = p

\* String.prototype.trim over the characters the model types
IsSpace(c) == c = " "

RECURSIVE TrimStart(_)
TrimStart(s) == IF s # <<>> /\ IsSpace(Head(s)) THEN TrimStart(Tail(s)) ELSE s

RECURSIVE TrimEnd(_)
TrimEnd(s) ==
    IF s # <<>> /\ IsSpace(s[Len(s)]) THEN TrimEnd(SubSeq(s, 1, Len(s) - 1)) ELSE s

Trim(s) == TrimEnd(TrimStart(s))

\* JavaScript truthiness of a string
Truthy(s) == s # <<>>

(***************************************************************************)
(* Files the user can pick, and the descriptor made from one.  A file name *)
(* is kept as its dot-separated segments: "photo.jpg" is <<"photo","jpg">>;*)
(* picture tells whether the content decodes as a picture in an <img>.     *)
(***************************************************************************)
FilePhoto == [name |-> <<"photo", "jpg">>, size |-> 2097152, mime |-> MimeJpeg, picture |-> TRUE]
FileClip == [name |-> <<"clip", "mp4">>, size |-> 3145728, mime |-> MimeMp4, picture |-> FALSE]
FileHuge == [name |-> <<"huge", "jpg">>, size |-> 26214400, mime |-> MimeJpeg, picture |-> TRUE]
FileNotes == [name |-> <<"notes", "txt">>, size |-> 1024, mime |-> MimeText, picture |-> FALSE]
FileHidden == [name |-> <<"", "env">>, size |-> 4096, mime |-> MimeText, picture |-> FALSE]

\* files offered to the controls of the director workflow
MainFiles == {FilePhoto, FileClip, FileHuge, FileNotes}
BadImageFiles == {FileHuge}
BadVideoFiles == {FileClip}
GoodImageFiles == {FilePhoto}

\* files offered to the upload control when ingestion is checked on its own
IngestSizes == {0, 1024, MaxFileSize - 1, MaxFileSize, MaxFileSize + 1, 26214400}
IngestMimes == {MimeJpeg, MimeMp4, MimeText, MimeBare, MimeNone}
IngestFiles == [name : {<<"f">>}, size : IngestSizes, mime : IngestMimes, picture : {FALSE}]

\* the null of a File, a MediaFile and a DirectorResponse slot
NoFile == [name |-> <<>>, size |-> 0, mime |-> MimeNone, picture |-> FALSE]
NoMedia == [file |-> NoFile, type |-> None, base64Data |-> <<>>, mimeType |-> <<>>]
NoResult == [title |-> None, analysis |-> None, prompt |-> None]

\* geminiService.ts fileToGenerativePart: the MIME type is the file's, the
\* payload is the base64 body of the file's data URL
fileToGenerativePart(file) == [mimeType |-> file.mime, data |-> <<"b64", file.name>>]

MediaFile(file, type) ==
    [file |-> file, type |-> type,
     base64Data |-> fileToGenerativePart(file).data,
     mimeType |-> fileToGenerativePart(file).mimeType]

(***************************************************************************)
(* Responses of the generative backend to a director recipe.               *)
(***************************************************************************)
RespTitled == [title |-> "T1", analysis |-> "A1", prompt |-> "P1"]
RespPlain == [title |-> Absent, analysis |-> "A2", prompt |-> "P2"]
RespEmpty == [title |-> Absent, analysis |-> Absent, prompt |-> Absent]
RespBlank == [title |-> "", analysis |-> Absent, prompt |-> Absent]
Responses == {RespTitled, RespPlain}

\* messages a rejected backend call may carry ("" is no message)
BackendMsg == "quota exceeded"
FailMessages == {BackendMsg, ""}

GenerateFallback == "Something went wrong during generation."

(***************************************************************************)
(* State.                                                                  *)
(***************************************************************************)
VARIABLES
    appMode,          \* App: 'director' | 'stocksensei'
    media,            \* App: the attached media descriptor or null
    generationState,  \* App: [isLoading, result, error]
    phase,            \* ResultDisplay: 'image-prompt' | 'video-prompt'
    activeTab,        \* ResultDisplay: 'none' | 'refine' | 'image-to-video'
    feedbackText,     \* ResultDisplay
    isRefining,       \* ResultDisplay
    generatedImage,   \* ResultDisplay: the confirmed intermediate image
    badResultImage,   \* ResultDisplay
    badResultVideo,   \* ResultDisplay
    isListening,      \* ResultDisplay
    recognition,      \* ResultDisplay: the speech recognition session
    calls,            \* gateway calls in flight
    encodes,          \* file encodings in flight
    wasVideo,         \* the video phase was shown since the media was attached
    styleImage,       \* WallpaperGenerator: the uploaded style image or null
    subjectImage,     \* WallpaperGenerator: the uploaded subject image or null
    savedStyles,      \* WallpaperGenerator: the style library in memory
    activeSavedStyle, \* WallpaperGenerator: the selected saved style or null
    wallState,        \* WallpaperGenerator: generationState
    stored,           \* localStorage item 'wallpaper_styles'
    tasks,            \* WallpaperGenerator: handlers suspended at an await
    wallDisplay,      \* the state of the ResultDisplay inside WallpaperGenerator
    insights,         \* StockSensei: the market-insight snapshot or null
    isInsightLoading, \* StockSensei
    selectedEvent,    \* StockSensei: the selected market event or null
    fetching,         \* StockSensei: insight fetches in flight for the mounted view
    senseiMedia,      \* StockSensei: media, the attached descriptor or null
    textInput,        \* StockSensei
    inputType,        \* StockSensei: 'file' | 'text'
    seoLoading,       \* StockSensei: isLoading
    seoResult,        \* StockSensei: result
    seoError,         \* StockSensei: error
    analyses,         \* StockSensei: SEO calls in flight for the mounted view
    senseiEncodes,    \* StockSensei: file encodings in flight for the mounted view
    ev                \* the last handler that ran and what it did

appVars == <<appMode, media, generationState>>
rdVars == <<phase, activeTab, feedbackText, isRefining, generatedImage,
            badResultImage, badResultVideo, isListening, recognition>>
styleVars == <<styleImage, subjectImage, savedStyles, activeSavedStyle,
              wallState, stored, tasks, wallDisplay>>
directorVars == <<appMode, media, generationState, phase, activeTab, feedbackText,
                 isRefining, generatedImage, badResultImage, badResultVideo,
                 isListening, recognition, calls, encodes, wasVideo>>
vars == <<appMode, media, generationState, phase, activeTab, feedbackText,
          isRefining, generatedImage, badResultImage, badResultVideo,
          isListening, recognition, calls, encodes, wasVideo, styleImage,
          subjectImage, savedStyles, activeSavedStyle, wallState, stored,
          tasks, wallDisplay, insights, isInsightLoading, selectedEvent, fetching,
          senseiMedia, textInput, inputType, seoLoading, seoResult, seoError,
          analyses, senseiEncodes, ev>>
insightVars == <<insights, isInsightLoading, selectedEvent, fetching>>
seoVars == <<senseiMedia, textInput, inputType, seoLoading, seoResult, seoError,
            analyses, senseiEncodes>>
senseiVars == <<insightVars, seoVars>>

\* MarketEvent and MarketInsight; 'complete' tells a snapshot that carries its
\* arrays from the object of an empty response body, which carries no field
NoEvent == [name |-> None, keywords |-> <<>>]
EventEarnings == [name |-> "earnings", keywords |-> <<"chart">>]
EventHoliday == [name |-> "holiday", keywords |-> <<"gift">>]
NoInsight == [complete |-> FALSE, upcomingEvents |-> <<>>, commercialAdvice |-> None]
InsightFull == [complete |-> TRUE, upcomingEvents |-> <<EventEarnings, EventHoliday>>,
                commercialAdvice |-> "sell charts"]
InsightOther == [complete |-> TRUE, upcomingEvents |-> <<EventHoliday>>,
                 commercialAdvice |-> "sell gifts"]
InsightQuiet == [complete |-> TRUE, upcomingEvents |-> <<>>,
                 commercialAdvice |-> "wait"]
InsightBare == [complete |-> FALSE, upcomingEvents |-> <<>>, commercialAdvice |-> Absent]

\* StockSenseiResponse; SeoBare is the object of an empty response body
NoSeo == [complete |-> FALSE, bestTitle |-> None]
SeoFull == [complete |-> TRUE, bestTitle |-> "city at sunset"]
SeoBare == [complete |-> FALSE, bestTitle |-> Absent]


\* what a handler did: the file it was given, whether a descriptor reached
\* the workflow, how many gateway calls it dispatched, the alert it showed,
\* the response the backend gave to the call it completed, the style
\* identifier it was given, whether an exception raised while it ran was
\* caught by the handler ("caught") or left it ("escaped"), and the message
\* of that exception
Event(op, file, delivered, sent, alert, resp) ==
    [op |-> op, file |-> file, delivered |-> delivered, sent |-> sent,
     alert |-> alert, resp |-> resp, id |-> 0, fault |-> "none",
     data |-> NoInsight, cause |-> ""]

Caught(e) == [e EXCEPT !.fault = "caught"]
Because(e, msg) == [e EXCEPT !.cause = msg]
Escaped(e) == [e EXCEPT !.fault = "escaped"]

Did(op) == Event(op, NoFile, FALSE, 0, None, NoResult)
Alerted(op, msg) == Event(op, NoFile, FALSE, 0, msg, NoResult)

IdleState == [isLoading |-> FALSE, result |-> NoResult, error |-> None]

\* ResultDisplay is rendered by App only in director mode with media attached
Mounted(mode, m) == mode = "director" /\ m # NoMedia
RDMounted == Mounted(appMode, media)
\* the upload control of App is rendered in director mode without media
UploadShown == appMode = "director" /\ media = NoMedia

\* Array.prototype.filter by position
RemoveAt(s, i) == SubSeq(s, 1, i - 1) \o SubSeq(s, i + 1, Len(s))

(***************************************************************************)
(* Mounting of ResultDisplay.  Its state lives as long as App keeps        *)
(* rendering it; a handler of an unmounted instance still runs to its end, *)
(* but its local state updates are dropped.                                *)
(***************************************************************************)
FreshDisplay ==
    [phase |-> "image-prompt", activeTab |-> "none", feedbackText |-> <<>>,
     isRefining |-> FALSE, generatedImage |-> NoMedia, badResultImage |-> NoMedia,
     badResultVideo |-> NoMedia, isListening |-> FALSE, recognition |-> "idle"]

CurrentDisplay ==
    [phase |-> phase, activeTab |-> activeTab, feedbackText |-> feedbackText,
     isRefining |-> isRefining, generatedImage |-> generatedImage,
     badResultImage |-> badResultImage, badResultVideo |-> badResultVideo,
     isListening |-> isListening, recognition |-> recognition]

SetDisplayInit ==
    /\ phase = FreshDisplay.phase
    /\ activeTab = FreshDisplay.activeTab
    /\ feedbackText = FreshDisplay.feedbackText
    /\ isRefining = FreshDisplay.isRefining
    /\ generatedImage = FreshDisplay.generatedImage
    /\ badResultImage = FreshDisplay.badResultImage
    /\ badResultVideo = FreshDisplay.badResultVideo
    /\ isListening = FreshDisplay.isListening
    /\ recognition = FreshDisplay.recognition

SetDisplay(d) ==
    /\ phase' = d.phase
    /\ activeTab' = d.activeTab
    /\ feedbackText' = d.feedbackText
    /\ isRefining' = d.isRefining
    /\ generatedImage' = d.generatedImage
    /\ badResultImage' = d.badResultImage
    /\ badResultVideo' = d.badResultVideo
    /\ isListening' = d.isListening
    /\ recognition' = d.recognition

\* the display state after App re-renders with (mode, m)
Rerender(mode, m, d) ==
    IF RDMounted /\ Mounted(mode, m) THEN d ELSE FreshDisplay

\* handlers of an instance that App stops rendering lose their instance
\* handleGenerate belongs to App, which is never unmounted
Orphaned(c) == IF c.recipe = "reversePrompt" THEN c ELSE [c EXCEPT !.live = FALSE]

Count(b, c) == IF c \in DOMAIN b THEN b[c] ELSE 0

Orphan(b) ==
    [c \in {Orphaned(d) : d \in DOMAIN b} |->
        IF c.live THEN Count(b, c) ELSE Count(b, c) + Count(b, [c EXCEPT !.live = TRUE])]

Outstanding == BagCardinality(calls)
Dispatch(c) == calls (+) SetToBag({c})
Complete(c) == calls (-) SetToBag({c})
InFlight == BagToSet(calls)

\* an encoding started by the upload control reports to App, which stays
OrphanEncodes(s) ==
    [i \in 1..Len(s) |-> IF s[i].target = "main" THEN s[i] ELSE [s[i] EXCEPT !.live = FALSE]]

Survive(mode, m, s) ==
    IF RDMounted /\ ~Mounted(mode, m) THEN Orphan(s) ELSE s

SurviveEncodes(mode, m, s) ==
    IF RDMounted /\ ~Mounted(mode, m) THEN OrphanEncodes(s) ELSE s

(***************************************************************************)
(* App                                                                     *)
(***************************************************************************)
\* App.tsx: onClick={() => setAppMode(...)}
\* StockSensei is rendered by App only in stocksensei mode
SenseiShown == appMode = "stocksensei"

\* the insights panel reads the arrays of every non-null snapshot it renders,
\* and the result panel the titles of every non-null result; an exception
\* thrown while rendering takes the whole view down
Crashed ==
    \/ insights # NoInsight /\ ~insights.complete
    \/ seoResult # NoSeo /\ ~seoResult.complete

\* a fresh StockSensei: the initial state, then the mount effect starts a fetch
SenseiActivated ==
    /\ insights' = NoInsight
    /\ selectedEvent' = NoEvent
    /\ isInsightLoading' = TRUE
    /\ fetching' = 1
    /\ senseiMedia' = NoMedia
    /\ textInput' = <<>>
    /\ inputType' = "file"
    /\ seoLoading' = FALSE
    /\ seoResult' = NoSeo
    /\ seoError' = None
    /\ analyses' = <<>>
    /\ senseiEncodes' = <<>>

\* unmounting discards the state, and a fetch still in flight can no longer
\* change anything
SenseiLeft ==
    /\ insights' = NoInsight
    /\ selectedEvent' = NoEvent
    /\ isInsightLoading' = FALSE
    /\ fetching' = 0
    /\ senseiMedia' = NoMedia
    /\ textInput' = <<>>
    /\ inputType' = "file"
    /\ seoLoading' = FALSE
    /\ seoResult' = NoSeo
    /\ seoError' = None
    /\ analyses' = <<>>
    /\ senseiEncodes' = <<>>

SetAppMode(mode) ==
    /\ UNCHANGED wasVideo
    /\ ~Crashed
    /\ mode # appMode
    /\ IF mode = "stocksensei" THEN SenseiActivated ELSE SenseiLeft
    /\ appMode' = mode
    /\ UNCHANGED <<media, generationState>>
    /\ SetDisplay(Rerender(mode, media, CurrentDisplay))
    /\ calls' = Survive(mode, media, calls)
    /\ encodes' = SurviveEncodes(mode, media, encodes)
    /\ ev' = Did("ui")
    /\ UNCHANGED styleVars

\* App.handleFileSelect
handleFileSelect(selectedMedia) ==
    /\ wasVideo' = FALSE
    /\ media' = selectedMedia
    /\ generationState' = IdleState
    /\ SetDisplay(Rerender(appMode, selectedMedia, CurrentDisplay))
    /\ UNCHANGED appMode

\* App.handleReset, the Start Over button of ResultDisplay
handleReset ==
    /\ wasVideo' = FALSE
    /\ RDMounted
    /\ media' = NoMedia
    /\ generationState' = IdleState
    /\ SetDisplay(FreshDisplay)
    /\ calls' = Orphan(calls)
    /\ encodes' = OrphanEncodes(encodes)
    /\ ev' = Did("handleReset")
    /\ UNCHANGED appMode
    /\ UNCHANGED <<styleVars, senseiVars>>

\* the Generate button is rendered without result and not loading; the Retry
\* link is rendered whenever an error is shown
GenerateShown ==
    /\ RDMounted
    /\ \/ generationState.result = NoResult /\ ~generationState.isLoading
       \/ generationState.error # None

\* App.handleGenerate up to the await
handleGenerate ==
    /\ UNCHANGED wasVideo
    /\ GenerateShown
    /\ media # NoMedia
    /\ Outstanding < MaxCalls
    /\ generationState' = [generationState EXCEPT !.isLoading = TRUE, !.error = None]
    /\ calls' = Dispatch([recipe |-> "reversePrompt", parts |-> <<media>>,
                               live |-> TRUE, prior |-> generationState.result])
    /\ ev' = Event("handleGenerate", NoFile, FALSE, 1, None, NoResult)
    /\ UNCHANGED <<appMode, media, encodes>>
    /\ UNCHANGED rdVars
    /\ UNCHANGED <<styleVars, senseiVars>>

\* App.handleGenerate after the await, the call resolved
GenerateOk(c, response) ==
    /\ UNCHANGED wasVideo
    /\ c.recipe = "reversePrompt"
    /\ generationState' = [isLoading |-> FALSE, result |-> response, error |-> None]
    /\ calls' = Complete(c)
    /\ ev' = Event("generateOk", NoFile, FALSE, 0, None, response)
    /\ UNCHANGED <<appMode, media, encodes>>
    /\ UNCHANGED rdVars
    /\ UNCHANGED <<styleVars, senseiVars>>

\* err.message || "Something went wrong during generation."
ErrorText(msg, fallback) == IF msg # "" THEN msg ELSE fallback

GenerateFailRedispatching(c, msg) ==
    /\ UNCHANGED wasVideo
    /\ c.recipe = "reversePrompt"
    /\ generationState' = [isLoading |-> FALSE, result |-> NoResult,
                           error |-> ErrorText(msg, GenerateFallback)]
    /\ calls' = calls
    /\ ev' = Because(Caught(Event("generateFail", NoFile, FALSE, 0, None, NoResult)), msg)
    /\ UNCHANGED <<appMode, media, encodes>>
    /\ UNCHANGED rdVars
    /\ UNCHANGED <<styleVars, senseiVars>>

\* App.handleGenerate after the await, the call rejected
GenerateFail(c, msg) ==
    /\ UNCHANGED wasVideo
    /\ c.recipe = "reversePrompt"
    /\ generationState' = [isLoading |-> FALSE, result |-> NoResult,
                           error |-> ErrorText(msg, GenerateFallback)]
    /\ calls' = Complete(c)
    /\ ev' = Because(Caught(Event("generateFail", NoFile, FALSE, 0, None, NoResult)), msg)
    /\ UNCHANGED <<appMode, media, encodes>>
    /\ UNCHANGED rdVars
    /\ UNCHANGED <<styleVars, senseiVars>>

\* a variant that spreads the new result over the previous one
Overlay(old, new) == IF new = Absent THEN old ELSE new

handleUpdateResultMerging(newResult) ==
    generationState' =
        [generationState EXCEPT
            !.result = [title |-> Overlay(@.title, newResult.title),
                        analysis |-> Overlay(@.analysis, newResult.analysis),
                        prompt |-> Overlay(@.prompt, newResult.prompt)],
            !.isLoading = FALSE]

\* App.handleUpdateResult
handleUpdateResult(newResult) ==
    generationState' = [generationState EXCEPT !.result = newResult, !.isLoading = FALSE]

(***************************************************************************)
(* FileUpload                                                              *)
(***************************************************************************)
\* a variant that also refuses a file of exactly the ceiling
TooLargeAtCeiling(file) == file.size >= MaxFileSize

\* FileUpload.handleFileChange: file.size > 20 * 1024 * 1024
TooLarge(file) == file.size > MaxFileSize

\* FileUpload.handleFileChange: isVideo || isImage
ValidType(file) ==
    StartsWith(file.mime, VideoPrefix) \/ StartsWith(file.mime, ImagePrefix)

\* FileUpload.handleFileChange: type: isVideo ? 'video' : 'image'
KindOf(file) == IF StartsWith(file.mime, VideoPrefix) THEN "video" ELSE "image"

\* FileUpload.handleFileChange up to the await; the input is disabled and a
\* drop is ignored while isLoading
handleFileChange(file) ==
    /\ UNCHANGED wasVideo
    /\ UploadShown
    /\ ~generationState.isLoading
    /\ IF TooLarge(file)
         THEN /\ ev' = Event("handleFileChange", file, FALSE, 0, "File is too large.", NoResult)
              /\ UNCHANGED encodes
         ELSE IF ~ValidType(file)
         THEN /\ ev' = Event("handleFileChange", file, FALSE, 0, "Please upload a valid image or video file.", NoResult)
              /\ UNCHANGED encodes
         ELSE /\ Len(encodes) < MaxEncodes
              /\ encodes' = Append(encodes, [file |-> file, target |-> "main",
                                            type |-> KindOf(file), live |-> TRUE])
              /\ ev' = Event("handleFileChange", file, FALSE, 0, None, NoResult)
    /\ UNCHANGED <<appMode, media, generationState, calls>>
    /\ UNCHANGED rdVars
    /\ UNCHANGED <<styleVars, senseiVars>>

\* FileUpload.handleFileChange after the await: onFileSelect(...)
FileEncoded(i) ==
    /\ encodes[i].target = "main"
    /\ handleFileSelect(MediaFile(encodes[i].file, encodes[i].type))
    /\ encodes' = RemoveAt(encodes, i)
    /\ ev' = Event("fileEncoded", encodes[i].file, TRUE, 0, None, NoResult)
    /\ UNCHANGED calls
    /\ UNCHANGED <<styleVars, senseiVars>>

\* FileUpload.handleFileChange after the await: the catch branch
FileEncodeFailed(i) ==
    /\ UNCHANGED wasVideo
    /\ encodes[i].target = "main"
    /\ encodes' = RemoveAt(encodes, i)
    /\ ev' = Caught(Event("fileEncodeFailed", encodes[i].file, FALSE, 0, "Failed to process file.", NoResult))
    /\ UNCHANGED <<appMode, media, generationState, calls>>
    /\ UNCHANGED rdVars
    /\ UNCHANGED <<styleVars, senseiVars>>

(***************************************************************************)
(* ResultDisplay                                                           *)
(***************************************************************************)
\* the feedback and workflow panel: state.result && !state.isLoading && !isRefining
PanelShown ==
    /\ RDMounted
    /\ generationState.result # NoResult
    /\ ~generationState.isLoading
    /\ ~isRefining

\* onClick={() => setActiveTab(activeTab === tab ? 'none' : tab)}; the Next
\* Step button is rendered in the image phase only
ToggleTab(tab) ==
    /\ UNCHANGED wasVideo
    /\ PanelShown
    /\ tab = "image-to-video" => phase = "image-prompt"
    /\ activeTab' = IF activeTab = tab THEN "none" ELSE tab
    /\ ev' = Did("ui")
    /\ UNCHANGED <<appMode, media, generationState, calls, encodes>>
    /\ UNCHANGED <<phase, feedbackText, isRefining, generatedImage, badResultImage,
                   badResultVideo, isListening, recognition>>
    /\ UNCHANGED <<styleVars, senseiVars>>

\* the textarea of the refine tab: onChange={(e) => setFeedbackText(e.target.value)}
TypeFeedback(text) ==
    /\ UNCHANGED wasVideo
    /\ PanelShown
    /\ activeTab = "refine"
    /\ text # feedbackText
    /\ feedbackText' = text
    /\ ev' = Did("ui")
    /\ UNCHANGED <<appMode, media, generationState, calls, encodes>>
    /\ UNCHANGED <<phase, activeTab, isRefining, generatedImage, badResultImage,
                   badResultVideo, isListening, recognition>>
    /\ UNCHANGED <<styleVars, senseiVars>>

\* the three hidden file inputs and the place each is rendered
InputShown(target) ==
    /\ PanelShown
    /\ CASE target = "badImage" ->
              activeTab = "refine" /\ phase = "image-prompt" /\ badResultImage = NoMedia
         [] target = "badVideo" ->
              activeTab = "refine" /\ phase = "video-prompt" /\ badResultVideo = NoMedia
         [] target = "generated" ->
              activeTab = "image-to-video" /\ generatedImage = NoMedia

\* the forcedType each input passes to handleMediaUpload
ForcedType(target) == IF target = "badVideo" THEN "video" ELSE "image"

\* ResultDisplay.handleMediaUpload up to the await
handleMediaUpload(file, target) ==
    /\ UNCHANGED wasVideo
    /\ InputShown(target)
    /\ Len(encodes) < MaxEncodes
    /\ encodes' = Append(encodes, [file |-> file, target |-> target,
                                  type |-> ForcedType(target), live |-> TRUE])
    /\ ev' = Event("handleMediaUpload", file, FALSE, 0, None, NoResult)
    /\ UNCHANGED <<appMode, media, generationState, calls>>
    /\ UNCHANGED rdVars
    /\ UNCHANGED <<styleVars, senseiVars>>

\* ResultDisplay.handleMediaUpload after the await: setter({...})
MediaEncoded(i) ==
    LET e == encodes[i]
        m == MediaFile(e.file, e.type)
    IN /\ e.target # "main"
       /\ UNCHANGED wasVideo
       /\ encodes' = RemoveAt(encodes, i)
       /\ generatedImage' = IF e.live /\ e.target = "generated" THEN m ELSE generatedImage
       /\ badResultImage' = IF e.live /\ e.target = "badImage" THEN m ELSE badResultImage
       /\ badResultVideo' = IF e.live /\ e.target = "badVideo" THEN m ELSE badResultVideo
       /\ ev' = Event("mediaEncoded", e.file, e.live, 0, None, NoResult)
       /\ UNCHANGED <<appMode, media, generationState, calls>>
       /\ UNCHANGED <<phase, activeTab, feedbackText, isRefining, isListening, recognition>>
    /\ UNCHANGED <<styleVars, senseiVars>>

\* a catch branch that also discards the active result
MediaEncodeFailedClearing(i) ==
    /\ UNCHANGED wasVideo
    /\ encodes[i].target # "main"
    /\ encodes' = RemoveAt(encodes, i)
    /\ generationState' = [generationState EXCEPT !.result = NoResult]
    /\ ev' = Caught(Event("mediaEncodeFailed", encodes[i].file, FALSE, 0, "Failed to load media", NoResult))
    /\ UNCHANGED <<appMode, media, calls>>
    /\ UNCHANGED rdVars
    /\ UNCHANGED <<styleVars, senseiVars>>

\* ResultDisplay.handleMediaUpload after the await: the catch branch
MediaEncodeFailed(i) ==
    /\ UNCHANGED wasVideo
    /\ encodes[i].target # "main"
    /\ encodes' = RemoveAt(encodes, i)
    /\ ev' = Caught(Event("mediaEncodeFailed", encodes[i].file, FALSE, 0, "Failed to load media", NoResult))
    /\ UNCHANGED <<appMode, media, generationState, calls>>
    /\ UNCHANGED rdVars
    /\ UNCHANGED <<styleVars, senseiVars>>

\* the remove buttons: setBadResultImage(null), setBadResultVideo(null),
\* setGeneratedImage(null)
RemoveMedia(target) ==
    /\ UNCHANGED wasVideo
    /\ PanelShown
    /\ CASE target = "badImage" ->
              /\ activeTab = "refine" /\ phase = "image-prompt" /\ badResultImage # NoMedia
              /\ badResultImage' = NoMedia
              /\ UNCHANGED <<badResultVideo, generatedImage>>
         [] target = "badVideo" ->
              /\ activeTab = "refine" /\ phase = "video-prompt" /\ badResultVideo # NoMedia
              /\ badResultVideo' = NoMedia
              /\ UNCHANGED <<badResultImage, generatedImage>>
         [] target = "generated" ->
              /\ activeTab = "image-to-video" /\ generatedImage # NoMedia
              /\ generatedImage' = NoMedia
              /\ UNCHANGED <<badResultImage, badResultVideo>>
    /\ ev' = Did("ui")
    /\ UNCHANGED <<appMode, media, generationState, calls, encodes>>
    /\ UNCHANGED <<phase, activeTab, feedbackText, isRefining, isListening, recognition>>
    /\ UNCHANGED <<styleVars, senseiVars>>

\* the transcript a recognition session returns
Transcript == <<"a">>

\* recognition.onresult: prev + (prev ? ' ' : '') + transcript
AppendTranscript(prev, transcript) ==
    prev \o (IF Truthy(prev) THEN <<" ">> ELSE <<>>) \o transcript

\* a stop button that also clears the feedback text
toggleListeningCancelling(available) ==
    /\ UNCHANGED wasVideo
    /\ PanelShown
    /\ activeTab = "refine"
    /\ IF isListening
         THEN /\ recognition # "idle"
              /\ isListening' = FALSE
              /\ recognition' = "stopping"
              /\ feedbackText' = <<>>
              /\ ev' = Did("stopListening")
         ELSE IF ~available
         THEN /\ ev' = Alerted("startListening", "speech input is not supported")
              /\ UNCHANGED <<isListening, recognition, feedbackText>>
         ELSE /\ recognition = "idle"
              /\ recognition' = "starting"
              /\ ev' = Did("startListening")
              /\ UNCHANGED <<isListening, feedbackText>>
    /\ UNCHANGED <<appMode, media, generationState, calls, encodes>>
    /\ UNCHANGED <<phase, activeTab, isRefining, generatedImage,
                   badResultImage, badResultVideo>>
    /\ UNCHANGED <<styleVars, senseiVars>>

\* ResultDisplay.toggleListening; available tells whether the runtime has a
\* SpeechRecognition constructor
toggleListening(available) ==
    /\ UNCHANGED wasVideo
    /\ PanelShown
    /\ activeTab = "refine"
    /\ IF isListening
         THEN \* recognitionRef.current.stop(); setIsListening(false)
              /\ recognition # "idle"
              /\ isListening' = FALSE
              /\ recognition' = "stopping"
              /\ ev' = Did("stopListening")
         ELSE IF ~available
         THEN /\ ev' = Alerted("startListening", "speech input is not supported")
              /\ UNCHANGED <<isListening, recognition>>
         ELSE \* one recognition session at a time
              /\ recognition = "idle"
              /\ recognition' = "starting"
              /\ ev' = Did("startListening")
              /\ UNCHANGED isListening
    /\ UNCHANGED <<appMode, media, generationState, calls, encodes>>
    /\ UNCHANGED <<phase, activeTab, feedbackText, isRefining, generatedImage,
                   badResultImage, badResultVideo>>
    /\ UNCHANGED <<styleVars, senseiVars>>

\* recognition.onstart
SpeechStart ==
    /\ UNCHANGED wasVideo
    /\ recognition = "starting"
    /\ recognition' = "running"
    /\ isListening' = TRUE
    /\ ev' = Did("speechStart")
    /\ UNCHANGED <<appMode, media, generationState, calls, encodes>>
    /\ UNCHANGED <<phase, activeTab, feedbackText, isRefining, generatedImage,
                   badResultImage, badResultVideo>>
    /\ UNCHANGED <<styleVars, senseiVars>>

\* recognition.onresult; a session that is not continuous ends after it
SpeechResult ==
    /\ UNCHANGED wasVideo
    /\ recognition \in {"running", "stopping"}
    /\ Len(AppendTranscript(feedbackText, Transcript)) <= MaxFeedbackLen
    /\ feedbackText' = AppendTranscript(feedbackText, Transcript)
    /\ recognition' = "stopping"
    /\ ev' = Did("speechResult")
    /\ UNCHANGED <<appMode, media, generationState, calls, encodes>>
    /\ UNCHANGED <<phase, activeTab, isRefining, generatedImage, badResultImage,
                   badResultVideo, isListening>>
    /\ UNCHANGED <<styleVars, senseiVars>>

\* recognition.onerror and recognition.onend: setIsListening(false)
SpeechEnd ==
    /\ UNCHANGED wasVideo
    /\ recognition # "idle"
    /\ recognition' = "idle"
    /\ isListening' = FALSE
    /\ ev' = Did("speechEnd")
    /\ UNCHANGED <<appMode, media, generationState, calls, encodes>>
    /\ UNCHANGED <<phase, activeTab, feedbackText, isRefining, generatedImage,
                   badResultImage, badResultVideo>>
    /\ UNCHANGED <<styleVars, senseiVars>>

\* the submit button of the refine tab:
\* disabled={!feedbackText.trim() && !badResultImage && !badResultVideo}
RefineDisabled ==
    ~Truthy(Trim(feedbackText)) /\ badResultImage = NoMedia /\ badResultVideo = NoMedia

\* a variant that accepts an attachment of either kind, as the button does
hasAnyBadMedia == badResultImage # NoMedia \/ badResultVideo # NoMedia

\* handleRefineSubmit: phase === 'image-prompt' ? !!badResultImage : !!badResultVideo
hasBadMedia ==
    IF phase = "image-prompt" THEN badResultImage # NoMedia ELSE badResultVideo # NoMedia

\* geminiService.ts refinePromptWithFeedback: the inline media parts; the
\* director workflow passes no additionalMedia
RefineImageParts == <<media>> \o (IF badResultImage # NoMedia THEN <<badResultImage>> ELSE <<>>)

\* geminiService.ts refineVideoPromptWithFeedback: the inline media parts
RefineVideoParts ==
    <<media, generatedImage>> \o (IF badResultVideo # NoMedia THEN <<badResultVideo>> ELSE <<>>)

\* ResultDisplay.handleRefineSubmit up to the await
handleRefineSubmit ==
    /\ UNCHANGED wasVideo
    /\ PanelShown
    /\ activeTab = "refine"
    /\ IF RefineDisabled
         THEN /\ ev' = Did("refineDisabled")
              /\ UNCHANGED <<isRefining, calls>>
         ELSE IF generationState.result = NoResult
         THEN /\ ev' = Did("handleRefineSubmit")
              /\ UNCHANGED <<isRefining, calls>>
         ELSE IF ~Truthy(Trim(feedbackText)) /\ ~hasBadMedia
         THEN /\ ev' = Alerted("handleRefineSubmit", "enter feedback or upload the bad result")
              /\ UNCHANGED <<isRefining, calls>>
         ELSE IF phase = "image-prompt"
         THEN /\ Outstanding < MaxCalls
              /\ isRefining' = TRUE
              /\ calls' = Dispatch([recipe |-> "refineImage", parts |-> RefineImageParts,
                                         live |-> TRUE, prior |-> generationState.result])
              /\ ev' = Event("handleRefineSubmit", NoFile, FALSE, 1, None, NoResult)
         ELSE IF generatedImage = NoMedia
         THEN \* throw new Error("Missing asset context"), caught below
              /\ ev' = Caught(Alerted("handleRefineSubmit",
                                          "Refinement failed. Please try again."))
              /\ UNCHANGED <<isRefining, calls>>
         ELSE /\ Outstanding < MaxCalls
              /\ isRefining' = TRUE
              /\ calls' = Dispatch([recipe |-> "refineVideo", parts |-> RefineVideoParts,
                                         live |-> TRUE, prior |-> generationState.result])
              /\ ev' = Event("handleRefineSubmit", NoFile, FALSE, 1, None, NoResult)
    /\ UNCHANGED <<appMode, media, generationState, encodes>>
    /\ UNCHANGED <<phase, activeTab, feedbackText, generatedImage, badResultImage,
                   badResultVideo, isListening, recognition>>
    /\ UNCHANGED <<styleVars, senseiVars>>

IsRefine(c) == c.recipe \in {"refineImage", "refineVideo"}

\* a variant that forgets to clear the feedback inputs
RefineOkKeepingInputs(c, newResponse) ==
    /\ UNCHANGED wasVideo
    /\ IsRefine(c)
    /\ handleUpdateResult(newResponse)
    /\ IF c.live
         THEN /\ activeTab' = "none"
              /\ isRefining' = FALSE
         ELSE UNCHANGED <<activeTab, isRefining>>
    /\ calls' = Complete(c)
    /\ ev' = Event("refineOk", NoFile, FALSE, 0, None, newResponse)
    /\ UNCHANGED <<appMode, media, encodes>>
    /\ UNCHANGED <<phase, generatedImage, isListening, recognition, feedbackText,
                   badResultImage, badResultVideo>>
    /\ UNCHANGED <<styleVars, senseiVars>>

\* ResultDisplay.handleRefineSubmit after the await, the call resolved
RefineOk(c, newResponse) ==
    /\ UNCHANGED wasVideo
    /\ IsRefine(c)
    /\ handleUpdateResult(newResponse)
    /\ IF c.live
         THEN /\ feedbackText' = <<>>
              /\ badResultImage' = NoMedia
              /\ badResultVideo' = NoMedia
              /\ activeTab' = "none"
              /\ isRefining' = FALSE
         ELSE UNCHANGED <<feedbackText, badResultImage, badResultVideo, activeTab, isRefining>>
    /\ calls' = Complete(c)
    /\ ev' = Event("refineOk", NoFile, FALSE, 0, None, newResponse)
    /\ UNCHANGED <<appMode, media, encodes>>
    /\ UNCHANGED <<phase, generatedImage, isListening, recognition>>
    /\ UNCHANGED <<styleVars, senseiVars>>

\* a catch branch without the finally block
RefineFailLeavingFlag(c, msg) ==
    /\ UNCHANGED wasVideo
    /\ IsRefine(c)
    /\ calls' = Complete(c)
    /\ ev' = Because(Caught(Event("refineFail", NoFile, FALSE, 0,
                                  "Refinement failed. Please try again.", NoResult)), msg)
    /\ UNCHANGED <<appMode, media, generationState, encodes>>
    /\ UNCHANGED rdVars
    /\ UNCHANGED <<styleVars, senseiVars>>

\* ResultDisplay.handleRefineSubmit after the await, the call rejected
RefineFail(c, msg) ==
    /\ UNCHANGED wasVideo
    /\ IsRefine(c)
    /\ isRefining' = IF c.live THEN FALSE ELSE isRefining
    /\ calls' = Complete(c)
    /\ ev' = Because(Caught(Event("refineFail", NoFile, FALSE, 0,
                                  "Refinement failed. Please try again.", NoResult)), msg)
    /\ UNCHANGED <<appMode, media, generationState, encodes>>
    /\ UNCHANGED <<phase, activeTab, feedbackText, generatedImage, badResultImage,
                   badResultVideo, isListening, recognition>>
    /\ UNCHANGED <<styleVars, senseiVars>>

\* ResultDisplay.handleVideoPromptSubmit up to the await; the button is
\* disabled={!generatedImage}
handleVideoPromptSubmit ==
    /\ UNCHANGED wasVideo
    /\ PanelShown
    /\ activeTab = "image-to-video"
    /\ IF generatedImage = NoMedia
         THEN /\ ev' = Did("advanceDisabled")
              /\ UNCHANGED <<isRefining, calls>>
         ELSE /\ Outstanding < MaxCalls
              /\ isRefining' = TRUE
              /\ calls' = Dispatch([recipe |-> "imageToVideo", parts |-> <<media, generatedImage>>,
                                         live |-> TRUE, prior |-> generationState.result])
              /\ ev' = Event("handleVideoPromptSubmit", NoFile, FALSE, 1, None, NoResult)
    /\ UNCHANGED <<appMode, media, generationState, encodes>>
    /\ UNCHANGED <<phase, activeTab, feedbackText, generatedImage, badResultImage,
                   badResultVideo, isListening, recognition>>
    /\ UNCHANGED <<styleVars, senseiVars>>

\* a success handler that also releases the confirmed image
AdvanceOkConsuming(c, newResponse) ==
    /\ wasVideo' = (wasVideo \/ c.live)
    /\ c.recipe = "imageToVideo"
    /\ handleUpdateResult(newResponse)
    /\ IF c.live
         THEN /\ phase' = "video-prompt"
              /\ activeTab' = "none"
              /\ isRefining' = FALSE
              /\ generatedImage' = NoMedia
         ELSE UNCHANGED <<phase, activeTab, isRefining, generatedImage>>
    /\ calls' = Complete(c)
    /\ ev' = Event("advanceOk", NoFile, FALSE, 0, None, newResponse)
    /\ UNCHANGED <<appMode, media, encodes>>
    /\ UNCHANGED <<feedbackText, badResultImage, badResultVideo,
                   isListening, recognition>>
    /\ UNCHANGED <<styleVars, senseiVars>>


\* ResultDisplay.handleVideoPromptSubmit after the await, the call resolved
AdvanceOk(c, newResponse) ==
    /\ wasVideo' = (wasVideo \/ c.live)
    /\ c.recipe = "imageToVideo"
    /\ handleUpdateResult(newResponse)
    /\ IF c.live
         THEN /\ phase' = "video-prompt"
              /\ activeTab' = "none"
              /\ isRefining' = FALSE
         ELSE UNCHANGED <<phase, activeTab, isRefining>>
    /\ calls' = Complete(c)
    /\ ev' = Event("advanceOk", NoFile, FALSE, 0, None, newResponse)
    /\ UNCHANGED <<appMode, media, encodes>>
    /\ UNCHANGED <<feedbackText, generatedImage, badResultImage, badResultVideo,
                   isListening, recognition>>
    /\ UNCHANGED <<styleVars, senseiVars>>

\* a variant that switches the phase whatever the outcome
AdvanceFailSwitching(c, msg) ==
    /\ UNCHANGED wasVideo
    /\ c.recipe = "imageToVideo"
    /\ isRefining' = IF c.live THEN FALSE ELSE isRefining
    /\ phase' = IF c.live THEN "video-prompt" ELSE phase
    /\ calls' = Complete(c)
    /\ ev' = Because(Caught(Event("advanceFail", NoFile, FALSE, 0, "Analysis failed.", NoResult)), msg)
    /\ UNCHANGED <<appMode, media, generationState, encodes>>
    /\ UNCHANGED <<activeTab, feedbackText, generatedImage, badResultImage,
                   badResultVideo, isListening, recognition>>
    /\ UNCHANGED <<styleVars, senseiVars>>

\* ResultDisplay.handleVideoPromptSubmit after the await, the call rejected
AdvanceFail(c, msg) ==
    /\ UNCHANGED wasVideo
    /\ c.recipe = "imageToVideo"
    /\ isRefining' = IF c.live THEN FALSE ELSE isRefining
    /\ calls' = Complete(c)
    /\ ev' = Because(Caught(Event("advanceFail", NoFile, FALSE, 0, "Analysis failed.", NoResult)), msg)
    /\ UNCHANGED <<appMode, media, generationState, encodes>>
    /\ UNCHANGED <<phase, activeTab, feedbackText, generatedImage, badResultImage,
                   badResultVideo, isListening, recognition>>
    /\ UNCHANGED <<styleVars, senseiVars>>

(***************************************************************************)
(* WallpaperGenerator: the style library and the fusion request.           *)
(***************************************************************************)
\* the null of a SavedStyle slot
NoStyle == [id |-> 0, name |-> "", analysis |-> None, thumbnailUrl |-> <<>>]

\* JavaScript truthiness of an optional string
TruthyText(s) == s \notin {"", Absent, None}

\* file.name.split('.')[0]
Stem(file) == IF file.name = <<>> THEN "" ELSE Head(file.name)

\* JSON.stringify leaves out a property whose value is undefined, and a
\* property that is not in the parsed object reads as undefined
Omitted == "omitted"
Encode(style) ==
    [style EXCEPT !.name = IF @ = Absent THEN Omitted ELSE @,
                  !.analysis = IF @ = Absent THEN Omitted ELSE @]
Decode(object) ==
    [object EXCEPT !.name = IF @ = Omitted THEN Absent ELSE @,
                   !.analysis = IF @ = Omitted THEN Absent ELSE @]

\* JSON.stringify of the library and JSON.parse of a stored item
Stringify(styles) ==
    [kind |-> "json",
     value |-> IF styles = <<>> THEN <<>>
               ELSE [k \in 1..Len(styles) |-> Encode(styles[k])]]
NoItem == [kind |-> "absent", value |-> <<>>]
Parse(item) ==
    IF item.value = <<>> THEN <<>>
    ELSE [k \in 1..Len(item.value) |-> Decode(item.value[k])]

\* an item that JSON.parse rejects
CorruptItem == [kind |-> "corrupt", value |-> <<>>]

\* createPersistentThumbnail: a JPEG data URL of the picture (img.onload), or
\* the source URL itself when the content does not load (img.onerror)
Thumbnail(file) ==
    IF file.picture THEN <<"data:image/jpeg", file.name>> ELSE <<"blob:", file.name>>

\* Array.prototype.filter(s => s.id !== id)
RECURSIVE WithoutId(_, _)
WithoutId(styles, id) ==
    IF styles = <<>> THEN <<>>
    ELSE IF Head(styles).id = id THEN WithoutId(Tail(styles), id)
    ELSE <<Head(styles)>> \o WithoutId(Tail(styles), id)

ImportFailedAlert == "import failed: "
StorageFullAlert == "storage full"
SaveStorageFullAlert == "storage full, delete some styles"
SavedAlert == "style saved"
FusionFallback == "Wallpaper generation failed."

\* a handler suspended at an await, with the values its closure captured
Task(kind, stage, file, styles, result, name, slot, parts, text) ==
    [kind |-> kind, stage |-> stage, file |-> file, styles |-> styles,
     result |-> result, name |-> name, slot |-> slot, parts |-> parts,
     text |-> text]

Suspended == BagToSet(tasks)
Suspend(t) == tasks (+) SetToBag({t})
Resume(t) == tasks (-) SetToBag({t})
Advance(t, u) == (tasks (-) SetToBag({t})) (+) SetToBag({u})

StyleEvent(op, id, alert) ==
    [Event(op, NoFile, FALSE, 0, alert, NoResult) EXCEPT !.id = id]

\* the ResultDisplay inside WallpaperGenerator is rendered with a result; its
\* local state starts from the useState initial values at each mount
WallDisplayShown == wallState.result # NoResult

WallFresh ==
    [phase |-> "image-prompt", activeTab |-> "none", feedbackText |-> <<>>,
     isRefining |-> FALSE, generatedImage |-> NoMedia, badResultImage |-> NoMedia,
     badResultVideo |-> NoMedia]

\* handlers of a ResultDisplay that is no longer rendered keep running, but
\* their local setters no longer change anything
DisplayKinds == {"refine", "advance", "media"}
OrphanTask(t) == IF t.kind \in DisplayKinds THEN [t EXCEPT !.stage = "orphaned"] ELSE t
OrphanDisplay(b) ==
    [u \in {OrphanTask(t) : t \in DOMAIN b} |->
        LET same == {t \in DOMAIN b : OrphanTask(t) = u}
            RECURSIVE Sum(_)
            Sum(S) == IF S = {} THEN 0
                      ELSE LET x == CHOOSE y \in S : TRUE IN b[x] + Sum(S \ {x})
        IN Sum(same)]

\* the library, the inputs and the Generate button are rendered without a result
LibraryShown == wallState.result = NoResult

\* a load that restores the entries newest last
LoadStylesReversed(item) ==
    IF item.kind = "json"
      THEN LET styles == Parse(item)
           IN  [k \in 1..Len(styles) |-> styles[Len(styles) + 1 - k]]
      ELSE <<>>

\* useEffect on mount: load the library from local storage
LoadStyles(item) == IF item.kind = "json" THEN Parse(item) ELSE <<>>

\* a new session: the component mounts with fresh state and loads the library
Mount ==
    /\ styleImage' = NoMedia
    /\ subjectImage' = NoMedia
    /\ activeSavedStyle' = NoStyle
    /\ wallState' = IdleState
    /\ savedStyles' = LoadStyles(stored)
    /\ tasks' = EmptyBag
    /\ wallDisplay' = WallFresh
    /\ ev' = Did("mount")
    /\ UNCHANGED stored
    /\ UNCHANGED <<directorVars, senseiVars>>

\* FileUpload.handleFileChange of the style or the subject upload control
WallpaperUploadShown(slot) ==
    /\ LibraryShown
    /\ IF slot = "style"
         THEN activeSavedStyle = NoStyle /\ styleImage = NoMedia
         ELSE subjectImage = NoMedia

WallpaperFileChange(file, slot) ==
    /\ WallpaperUploadShown(slot)
    /\ ~wallState.isLoading
    /\ IF TooLarge(file)
         THEN /\ ev' = Event("wallpaperFileChange", file, FALSE, 0, "File is too large.", NoResult)
              /\ UNCHANGED tasks
         ELSE IF ~ValidType(file)
         THEN /\ ev' = Event("wallpaperFileChange", file, FALSE, 0, "Please upload a valid image or video file.", NoResult)
              /\ UNCHANGED tasks
         ELSE /\ BagCardinality(tasks) < MaxTasks
              /\ tasks' = Suspend(Task("upload", "encode", file, <<>>, NoResult, "",
                                       slot, <<>>, None))
              /\ ev' = Event("wallpaperFileChange", file, FALSE, 0, None, NoResult)
    /\ UNCHANGED <<styleImage, subjectImage, savedStyles, activeSavedStyle, wallState, stored>>
    /\ UNCHANGED <<directorVars, senseiVars, wallDisplay>>

\* onFileSelect = setStyleImage | setSubjectImage
WallpaperFileEncoded(t) ==
    /\ t.kind = "upload"
    /\ tasks' = Resume(t)
    /\ IF t.slot = "style"
         THEN /\ styleImage' = MediaFile(t.file, KindOf(t.file))
              /\ UNCHANGED subjectImage
         ELSE /\ subjectImage' = MediaFile(t.file, KindOf(t.file))
              /\ UNCHANGED styleImage
    /\ ev' = Event("wallpaperFileEncoded", t.file, TRUE, 0, None, NoResult)
    /\ UNCHANGED <<savedStyles, activeSavedStyle, wallState, stored>>
    /\ UNCHANGED <<directorVars, senseiVars, wallDisplay>>

WallpaperFileEncodeFailed(t) ==
    /\ t.kind = "upload"
    /\ tasks' = Resume(t)
    /\ ev' = Caught(Event("wallpaperFileEncodeFailed", t.file, FALSE, 0, "Failed to process file.", NoResult))
    /\ UNCHANGED <<styleImage, subjectImage, savedStyles, activeSavedStyle, wallState, stored>>
    /\ UNCHANGED <<directorVars, senseiVars, wallDisplay>>

\* the buttons that call setStyleImage(null) and setSubjectImage(null)
ClearImage(slot) ==
    /\ LibraryShown
    /\ IF slot = "style"
         THEN /\ activeSavedStyle = NoStyle
              /\ styleImage # NoMedia
              /\ styleImage' = NoMedia
              /\ UNCHANGED subjectImage
         ELSE /\ subjectImage # NoMedia
              /\ subjectImage' = NoMedia
              /\ UNCHANGED styleImage
    /\ ev' = Did("clearImage")
    /\ UNCHANGED <<savedStyles, activeSavedStyle, wallState, stored, tasks>>
    /\ UNCHANGED <<directorVars, senseiVars, wallDisplay>>

\* WallpaperGenerator.handleImportStyle up to the first await; the import
\* button is disabled while isLoading
handleImportStyle(file) ==
    /\ LibraryShown
    /\ ~wallState.isLoading
    /\ BagCardinality(tasks) < MaxTasks
    /\ Len(savedStyles) < MaxStyles
    /\ wallState' = [wallState EXCEPT !.isLoading = TRUE, !.error = None]
    /\ tasks' = Suspend(Task("import", "encode", file, savedStyles, NoResult, "",
                             "library", <<>>, None))
    /\ ev' = Event("handleImportStyle", file, FALSE, 0, None, NoResult)
    /\ UNCHANGED <<styleImage, subjectImage, savedStyles, activeSavedStyle, stored>>
    /\ UNCHANGED <<directorVars, senseiVars, wallDisplay>>

\* handleImportStyle: fileToGenerativePart resolved, generateReversePrompt is called
ImportEncoded(t) ==
    /\ t.kind = "import"
    /\ t.stage = "encode"
    /\ tasks' = Advance(t, [t EXCEPT !.stage = "analyze",
                                     !.parts = <<MediaFile(t.file, "image")>>])
    /\ ev' = Event("importEncoded", t.file, FALSE, 1, None, NoResult)
    /\ UNCHANGED <<styleImage, subjectImage, savedStyles, activeSavedStyle, wallState, stored>>
    /\ UNCHANGED <<directorVars, senseiVars, wallDisplay>>

\* handleImportStyle: generateReversePrompt resolved, the thumbnail is awaited
ImportAnalyzed(t, response) ==
    /\ t.kind = "import"
    /\ t.stage = "analyze"
    /\ tasks' = Advance(t, [t EXCEPT !.stage = "thumbnail", !.result = response])
    /\ ev' = Event("importAnalyzed", t.file, FALSE, 0, None, response)
    /\ UNCHANGED <<styleImage, subjectImage, savedStyles, activeSavedStyle, wallState, stored>>
    /\ UNCHANGED <<directorVars, senseiVars, wallDisplay>>

\* a catch branch that also drops the selection
ImportFailedDeselecting(t, msg) ==
    /\ t.kind = "import"
    /\ t.stage \in {"encode", "analyze"}
    /\ tasks' = Resume(t)
    /\ wallState' = [wallState EXCEPT !.isLoading = FALSE]
    /\ activeSavedStyle' = NoStyle
    /\ ev' = Caught(Event("importFailed", t.file, FALSE, 0, ImportFailedAlert \o msg, NoResult))
    /\ UNCHANGED <<styleImage, subjectImage, savedStyles, stored>>
    /\ UNCHANGED <<directorVars, senseiVars, wallDisplay>>

\* handleImportStyle: the catch and finally branches after a rejected await
ImportFailed(t, msg) ==
    /\ t.kind = "import"
    /\ t.stage \in {"encode", "analyze"}
    /\ tasks' = Resume(t)
    /\ wallState' = [wallState EXCEPT !.isLoading = FALSE]
    /\ ev' = Caught(Event("importFailed", t.file, FALSE, 0, ImportFailedAlert \o msg, NoResult))
    /\ UNCHANGED <<styleImage, subjectImage, savedStyles, activeSavedStyle, stored>>
    /\ UNCHANGED <<directorVars, senseiVars, wallDisplay>>

\* a variant that prefers the filename stem to the title
AutoNameStemFirst(title, file) ==
    IF TruthyText(Stem(file)) THEN Stem(file)
    ELSE IF TruthyText(title) THEN title
    ELSE "New Style"

\* analysisResult.title || file.name.split('.')[0] || "New Style"
AutoName(title, file) ==
    IF TruthyText(title) THEN title
    ELSE IF TruthyText(Stem(file)) THEN Stem(file)
    ELSE "New Style"

\* a variant that shows the entry before it is written
ImportThumbnailedShowingFirst(t, now, writable) ==
    /\ t.kind = "import"
    /\ t.stage = "thumbnail"
    /\ tasks' = Resume(t)
    /\ LET newStyle == [id |-> now, name |-> AutoName(t.result.title, t.file),
                        analysis |-> t.result.analysis,
                        thumbnailUrl |-> Thumbnail(t.file)]
           updatedStyles == <<newStyle>> \o t.styles
       IN  /\ savedStyles' = updatedStyles
           /\ IF writable
                THEN /\ stored' = Stringify(updatedStyles)
                     /\ ev' = [Event("importSaved", t.file, FALSE, 0, None, t.result)
                                  EXCEPT !.id = now]
                ELSE /\ UNCHANGED stored
                     /\ ev' = Caught([Event("importSaved", t.file, FALSE, 0,
                                                   StorageFullAlert, t.result)
                                             EXCEPT !.id = now])
    /\ wallState' = [wallState EXCEPT !.isLoading = FALSE]
    /\ UNCHANGED <<styleImage, subjectImage, activeSavedStyle>>
    /\ UNCHANGED <<directorVars, senseiVars, wallDisplay>>

\* handleImportStyle after the thumbnail: the entry is written, then shown
ImportThumbnailed(t, now, writable) ==
    /\ t.kind = "import"
    /\ t.stage = "thumbnail"
    /\ tasks' = Resume(t)
    /\ LET newStyle == [id |-> now, name |-> AutoName(t.result.title, t.file),
                        analysis |-> t.result.analysis,
                        thumbnailUrl |-> Thumbnail(t.file)]
           updatedStyles == <<newStyle>> \o t.styles
       IN  IF writable
             THEN /\ stored' = Stringify(updatedStyles)
                  /\ savedStyles' = updatedStyles
                  /\ ev' = [Event("importSaved", t.file, FALSE, 0, None, t.result)
                               EXCEPT !.id = now]
             ELSE /\ UNCHANGED <<stored, savedStyles>>
                  /\ ev' = Caught([Event("importSaved", t.file, FALSE, 0,
                                                StorageFullAlert, t.result)
                                          EXCEPT !.id = now])
    /\ wallState' = [wallState EXCEPT !.isLoading = FALSE]
    /\ UNCHANGED <<styleImage, subjectImage, activeSavedStyle>>
    /\ UNCHANGED <<directorVars, senseiVars, wallDisplay>>

\* the Generate button: disabled without a style source and while isLoading
handleGenerateWallpaper ==
    /\ LibraryShown
    /\ styleImage # NoMedia \/ activeSavedStyle # NoStyle
    /\ ~wallState.isLoading
    /\ BagCardinality(tasks) < MaxTasks
    /\ wallState' = [wallState EXCEPT !.isLoading = TRUE, !.error = None]
    /\ LET styleParts == IF activeSavedStyle # NoStyle THEN <<>> ELSE <<styleImage>>
           subjectParts == IF subjectImage # NoMedia THEN <<subjectImage>> ELSE <<>>
           styleText == IF activeSavedStyle # NoStyle THEN activeSavedStyle.analysis ELSE None
       IN  tasks' = Suspend(Task("fusion", "analyze", NoFile, <<>>, NoResult, "",
                                 "result", styleParts \o subjectParts, styleText))
    /\ ev' = Event("handleGenerateWallpaper", NoFile, FALSE, 1, None, NoResult)
    /\ UNCHANGED <<styleImage, subjectImage, savedStyles, activeSavedStyle, stored>>
    /\ UNCHANGED <<directorVars, senseiVars, wallDisplay>>

FusionOk(t, response) ==
    /\ t.kind = "fusion"
    /\ tasks' = Resume(t)
    /\ wallState' = [isLoading |-> FALSE, result |-> response, error |-> None]
    /\ wallDisplay' = IF WallDisplayShown THEN wallDisplay ELSE WallFresh
    /\ ev' = Event("fusionOk", NoFile, FALSE, 0, None, response)
    /\ UNCHANGED <<styleImage, subjectImage, savedStyles, activeSavedStyle, stored>>
    /\ UNCHANGED <<directorVars, senseiVars>>

FusionFail(t, msg) ==
    /\ t.kind = "fusion"
    /\ tasks' = OrphanDisplay(Resume(t))
    /\ wallState' = [isLoading |-> FALSE, result |-> NoResult,
                     error |-> ErrorText(msg, FusionFallback)]
    /\ wallDisplay' = WallFresh
    /\ ev' = Caught(Did("fusionFail"))
    /\ UNCHANGED <<styleImage, subjectImage, savedStyles, activeSavedStyle, stored>>
    /\ UNCHANGED <<directorVars, senseiVars>>

\* generationState.result.title || `Style ${new Date().toLocaleTimeString()}`
SaveName(title, now) == IF TruthyText(title) THEN title ELSE "Style " \o ToString(now)

\* WallpaperGenerator.handleSaveStyle up to the await; the Save button is
\* rendered with a result and without an active saved style
handleSaveStyle(now) ==
    /\ wallState.result # NoResult
    /\ activeSavedStyle = NoStyle
    /\ IF styleImage = NoMedia
         THEN /\ ev' = Did("saveIgnored")
              /\ UNCHANGED tasks
         ELSE /\ BagCardinality(tasks) < MaxTasks
              /\ Len(savedStyles) < MaxStyles
              /\ tasks' = Suspend(Task("save", "thumbnail", styleImage.file, savedStyles,
                                       wallState.result,
                                       SaveName(wallState.result.title, now),
                                       "library", <<>>, None))
              /\ ev' = Did("handleSaveStyle")
    /\ UNCHANGED <<styleImage, subjectImage, savedStyles, activeSavedStyle, wallState, stored>>
    /\ UNCHANGED <<directorVars, senseiVars, wallDisplay>>

SaveThumbnailedBare(t, now, writable) ==
    /\ t.kind = "save"
    /\ tasks' = Resume(t)
    /\ LET newStyle == [id |-> now, name |-> t.name, analysis |-> t.result.analysis,
                        thumbnailUrl |-> <<>>]
           updatedStyles == <<newStyle>> \o t.styles
       IN  IF writable
             THEN /\ stored' = Stringify(updatedStyles)
                  /\ savedStyles' = updatedStyles
                  /\ ev' = StyleEvent("styleSaved", now, SavedAlert)
             ELSE /\ UNCHANGED <<stored, savedStyles>>
                  /\ ev' = Caught(StyleEvent("styleSaved", now, SaveStorageFullAlert))
    /\ UNCHANGED <<styleImage, subjectImage, activeSavedStyle, wallState>>
    /\ UNCHANGED <<directorVars, senseiVars, wallDisplay>>

\* handleSaveStyle after the thumbnail
SaveThumbnailed(t, now, writable) ==
    /\ t.kind = "save"
    /\ tasks' = Resume(t)
    /\ LET newStyle == [id |-> now, name |-> t.name, analysis |-> t.result.analysis,
                        thumbnailUrl |-> Thumbnail(t.file)]
           updatedStyles == <<newStyle>> \o t.styles
       IN  IF writable
             THEN /\ stored' = Stringify(updatedStyles)
                  /\ savedStyles' = updatedStyles
                  /\ ev' = StyleEvent("styleSaved", now, SavedAlert)
             ELSE /\ UNCHANGED <<stored, savedStyles>>
                  /\ ev' = Caught(StyleEvent("styleSaved", now, SaveStorageFullAlert))
    /\ UNCHANGED <<styleImage, subjectImage, activeSavedStyle, wallState>>
    /\ UNCHANGED <<directorVars, senseiVars, wallDisplay>>

\* WallpaperGenerator.handleDeleteStyle of the k-th library entry; a write
\* that throws ends the handler after setSavedStyles
handleDeleteStyle(k, confirmed, writable) ==
    /\ LibraryShown
    /\ k \in 1..Len(savedStyles)
    /\ LET id == savedStyles[k].id
           updated == WithoutId(savedStyles, id)
       IN  IF ~confirmed
             THEN /\ ev' = StyleEvent("deleteDeclined", id, None)
                  /\ UNCHANGED <<savedStyles, stored, activeSavedStyle>>
             ELSE /\ savedStyles' = updated
                  /\ IF writable
                       THEN /\ stored' = Stringify(updated)
                            /\ activeSavedStyle' =
                                 IF activeSavedStyle.id = id THEN NoStyle
                                 ELSE activeSavedStyle
                            /\ ev' = StyleEvent("deleteStyle", id, None)
                       ELSE /\ UNCHANGED <<stored, activeSavedStyle>>
                            /\ ev' = Escaped(StyleEvent("deleteStyle", id, None))
    /\ UNCHANGED <<styleImage, subjectImage, wallState, tasks>>
    /\ UNCHANGED <<directorVars, senseiVars, wallDisplay>>

\* WallpaperGenerator.handleSelectStyle
handleSelectStyle(k) ==
    /\ LibraryShown
    /\ k \in 1..Len(savedStyles)
    /\ activeSavedStyle' = savedStyles[k]
    /\ styleImage' = NoMedia
    /\ ev' = StyleEvent("handleSelectStyle", savedStyles[k].id, None)
    /\ UNCHANGED <<subjectImage, savedStyles, wallState, stored, tasks>>
    /\ UNCHANGED <<directorVars, senseiVars, wallDisplay>>

\* WallpaperGenerator.handleClearStyle: the Deselect button of the active style
handleClearStyle ==
    /\ LibraryShown
    /\ activeSavedStyle # NoStyle
    /\ activeSavedStyle' = NoStyle
    /\ styleImage' = NoMedia
    /\ ev' = Did("handleClearStyle")
    /\ UNCHANGED <<subjectImage, savedStyles, wallState, stored, tasks>>
    /\ UNCHANGED <<directorVars, senseiVars, wallDisplay>>

\* WallpaperGenerator.handleFullReset: the Back button of the result view
handleFullReset ==
    /\ wallState.result # NoResult
    /\ styleImage' = NoMedia
    /\ subjectImage' = NoMedia
    /\ activeSavedStyle' = NoStyle
    /\ wallState' = IdleState
    /\ wallDisplay' = WallFresh
    /\ tasks' = OrphanDisplay(tasks)
    /\ ev' = Did("handleFullReset")
    /\ UNCHANGED <<savedStyles, stored>>
    /\ UNCHANGED <<directorVars, senseiVars>>

(***************************************************************************)
(* The director workflow.                                                  *)
(***************************************************************************)
FeedbackInputs == {<<>>, <<" ">>, <<"a">>}
Targets == {"badImage", "badVideo", "generated"}

FilesFor(target) ==
    CASE target = "badImage" -> BadImageFiles
      [] target = "badVideo" -> BadVideoFiles
      [] target = "generated" -> GoodImageFiles

\* the state after construction, given the item found in local storage
InitWith(item) ==
    /\ appMode = "director"
    /\ media = NoMedia
    /\ generationState = IdleState
    /\ SetDisplayInit
    /\ calls = EmptyBag
    /\ encodes = <<>>
    /\ wasVideo = FALSE
    /\ styleImage = NoMedia
    /\ subjectImage = NoMedia
    /\ activeSavedStyle = NoStyle
    /\ wallState = IdleState
    /\ stored = item
    /\ savedStyles = LoadStyles(stored)
    /\ tasks = EmptyBag
    /\ wallDisplay = WallFresh
    /\ insights = NoInsight
    /\ selectedEvent = NoEvent
    /\ isInsightLoading = FALSE
    /\ fetching = 0
    /\ senseiMedia = NoMedia
    /\ textInput = <<>>
    /\ inputType = "file"
    /\ seoLoading = FALSE
    /\ seoResult = NoSeo
    /\ seoError = None
    /\ analyses = <<>>
    /\ senseiEncodes = <<>>
    /\ ev = Did("init")

Init == InitWith(NoItem)

Next ==
    \/ \E mode \in {"director", "stocksensei"} : SetAppMode(mode)
    \/ handleReset
    \/ handleGenerate
    \/ \E c \in InFlight, response \in Responses : GenerateOk(c, response)
    \/ \E c \in InFlight, msg \in FailMessages : GenerateFail(c, msg)
    \/ \E file \in MainFiles : handleFileChange(file)
    \/ \E i \in 1..Len(encodes) : FileEncoded(i)
    \/ \E i \in 1..Len(encodes) : FileEncodeFailed(i)
    \/ \E tab \in {"refine", "image-to-video"} : ToggleTab(tab)
    \/ \E text \in FeedbackInputs : TypeFeedback(text)
    \/ \E target \in Targets : \E file \in FilesFor(target) : handleMediaUpload(file, target)
    \/ \E i \in 1..Len(encodes) : MediaEncoded(i)
    \/ \E i \in 1..Len(encodes) : MediaEncodeFailed(i)
    \/ \E target \in Targets : RemoveMedia(target)
    \/ handleRefineSubmit
    \/ \E c \in InFlight, response \in Responses : RefineOk(c, response)
    \/ \E c \in InFlight, msg \in FailMessages : RefineFail(c, msg)
    \/ handleVideoPromptSubmit
    \/ \E c \in InFlight, response \in Responses : AdvanceOk(c, response)
    \/ \E c \in InFlight, msg \in FailMessages : AdvanceFail(c, msg)

Spec == Init /\ [][Next]_vars

(***************************************************************************)
(* Properties of the director workflow.                                    *)
(***************************************************************************)
\* the call whose completion a step handled
Completed(c) == c \in InFlight /\ calls' = Complete(c)

FailOps == {"generateFail", "refineFail", "advanceFail"}
OkOps == {"generateOk", "refineOk", "advanceOk"}

\* the size and type conditions of the ingestion contract
WithinContract(file) ==
    /\ file.size <= 20 * 1024 * 1024
    /\ Len(file.mime) >= 6
    /\ \/ SubSeq(file.mime, 1, 6) = ImagePrefix
       \/ SubSeq(file.mime, 1, 6) = VideoPrefix

\* C1: once the video phase has been shown for the attached media, the phase
\* shown for it is never image-prompt again unless the workflow is reset.
PhaseOneDirectional == (RDMounted /\ wasVideo) => phase = "video-prompt"

\* C2: at most one generation, refinement or advance call is outstanding.
AtMostOneOutstanding == Outstanding <= 1

\* C3: a failed call leaves the active result it was dispatched with in
\* place: when that result is still the active one, handling the failure
\* does not change it.
FailureKeepsResult ==
    [][\A c \in InFlight :
         (/\ ev'.op \in FailOps
          /\ Completed(c)
          /\ c.prior # NoResult
          /\ generationState.result = c.prior)
         => generationState'.result = generationState.result]_vars

\* C4: after a successful generation, refinement or advance the active
\* result is exactly the response of that call, field by field.
SuccessReplacesResult ==
    ev.op \in OkOps =>
        /\ generationState.result.title = ev.resp.title
        /\ generationState.result.analysis = ev.resp.analysis
        /\ generationState.result.prompt = ev.resp.prompt

\* a refinement replaced a titled result by an untitled response
SuccessReplacesResultWitness ==
    /\ ev.op = "refineOk"
    /\ ev.resp = RespPlain
    /\ generationState.result = RespPlain

\* a bad-reference attachment of the kind the current phase refines
PhaseMediaAttached ==
    \/ phase = "image-prompt" /\ badResultImage # NoMedia
    \/ phase = "video-prompt" /\ badResultVideo # NoMedia

BlankFeedback == \A k \in 1..Len(feedbackText) : feedbackText[k] = " "

\* C5: submitting a refinement dispatches no call when the feedback is blank
\* and no attachment of the current phase's kind is present, and exactly one
\* refine call otherwise.
RefineGate ==
    [][ev'.op \in {"handleRefineSubmit", "refineDisabled"} =>
         IF BlankFeedback /\ ~PhaseMediaAttached
           THEN calls' = calls
           ELSE \E c \in BagToSet(calls') :
                  /\ IsRefine(c)
                  /\ calls' = calls (+) SetToBag({c})]_vars

\* a refinement was rejected in the video phase although the bad image of
\* the image phase is still attached
RefineGateWitness ==
    /\ ev.op = "handleRefineSubmit"
    /\ ev.sent = 0
    /\ phase = "video-prompt"
    /\ badResultImage # NoMedia
    /\ BlankFeedback

AdvanceOnly ==
    [][/\ (phase = "image-prompt" /\ phase' = "video-prompt") =>
            /\ ev'.op = "advanceOk"
            /\ \E c \in InFlight :
                 /\ Completed(c)
                 /\ c.recipe = "imageToVideo"
                 /\ Len(c.parts) = 2
                 /\ c.parts[2] # NoMedia
       /\ (ev'.op \in {"handleVideoPromptSubmit", "advanceDisabled"}
             /\ generatedImage = NoMedia) => calls' = calls
       /\ ev'.op = "advanceFail" => phase' = phase]_vars

\* the advance succeeded and the video phase is shown
AdvanceOnlyWitness ==
    /\ ev.op = "advanceOk"
    /\ phase = "video-prompt"
    /\ generatedImage # NoMedia

\* C9: no call in flight carries a media part made from a file outside the
\* ingestion contract.
CallsCarryValidMedia ==
    \A c \in InFlight : \A k \in 1..Len(c.parts) : WithinContract(c.parts[k].file)

(***************************************************************************)
(* Media ingestion on its own: the upload control of App offered files of  *)
(* every size class and MIME family.                                       *)
(***************************************************************************)
NextIngest ==
    \/ \E file \in IngestFiles : handleFileChange(file)
    \/ \E i \in 1..Len(encodes) : FileEncoded(i)
    \/ \E i \in 1..Len(encodes) : FileEncodeFailed(i)
    \/ handleReset

SpecIngest == Init /\ [][NextIngest]_vars

IsVideoType(file) == Len(file.mime) >= 6 /\ SubSeq(file.mime, 1, 6) = VideoPrefix

\* C8 as stated: an ingestion that has ended delivered a descriptor exactly
\* when the file was within the size and type contract.
IngestIffContract ==
    (\/ ev.op \in {"fileEncoded", "fileEncodeFailed"}
     \/ ev.op = "handleFileChange" /\ ev.alert # None)
    => (ev.delivered <=> WithinContract(ev.file))

\* C8 amended: a file is taken for encoding exactly when it is within the
\* contract (at most 20 MiB, image/* or video/*); a descriptor is delivered
\* exactly when such a file's encoding succeeds, with the kind of its MIME
\* family; a refused file and a failed encoding change no state.
IngestContract ==
    [][/\ ev'.op = "handleFileChange" =>
            /\ ev'.alert = None <=> WithinContract(ev'.file)
            /\ ev'.alert = None => Len(encodes') = Len(encodes) + 1
            /\ ev'.alert # None => encodes' = encodes
            /\ ~ev'.delivered
            /\ media' = media
            /\ generationState' = generationState
       /\ ev'.op = "fileEncoded" =>
            /\ WithinContract(ev'.file)
            /\ ev'.delivered
            /\ media'.file = ev'.file
            /\ media'.mimeType = ev'.file.mime
            /\ media'.type = IF IsVideoType(ev'.file) THEN "video" ELSE "image"
       /\ ev'.op = "fileEncodeFailed" =>
            /\ ~ev'.delivered
            /\ media' = media
            /\ generationState' = generationState]_vars

\* a video of exactly 20 MiB was delivered as a video descriptor
IngestContractWitness ==
    /\ ev.op = "fileEncoded"
    /\ ev.file.size = MaxFileSize
    /\ media.type = "video"
    /\ media.file = ev.file

(***************************************************************************)
(* The wallpaper studio.                                                   *)
(***************************************************************************)
ImportFiles == {FilePhoto, FileHidden}
WallpaperFiles == {FilePhoto, FileHuge}
ImportResponses == {RespTitled, RespEmpty, RespBlank}
Clock == 1..MaxClock
Slots == {"style"}

NextStyle ==
    \/ Mount
    \/ \E file \in WallpaperFiles, slot \in Slots : WallpaperFileChange(file, slot)
    \/ \E t \in Suspended : WallpaperFileEncoded(t)
    \/ \E t \in Suspended : WallpaperFileEncodeFailed(t)
    \/ \E slot \in Slots : ClearImage(slot)
    \/ \E file \in ImportFiles : handleImportStyle(file)
    \/ \E t \in Suspended : ImportEncoded(t)
    \/ \E t \in Suspended, response \in ImportResponses : ImportAnalyzed(t, response)
    \/ \E t \in Suspended, msg \in FailMessages : ImportFailed(t, msg)
    \/ \E t \in Suspended, now \in Clock, writable \in BOOLEAN :
          ImportThumbnailed(t, now, writable)
    \/ handleGenerateWallpaper
    \/ \E t \in Suspended, response \in Responses : FusionOk(t, response)
    \/ \E t \in Suspended, msg \in FailMessages : FusionFail(t, msg)
    \/ \E now \in Clock : handleSaveStyle(now)
    \/ \E t \in Suspended, now \in Clock, writable \in BOOLEAN :
          SaveThumbnailed(t, now, writable)
    \/ \E k \in 1..Len(savedStyles), confirmed \in BOOLEAN, writable \in BOOLEAN :
          handleDeleteStyle(k, confirmed, writable)
    \/ \E k \in 1..Len(savedStyles) : handleSelectStyle(k)
    \/ handleClearStyle
    \/ handleFullReset

SpecStyle == Init /\ [][NextStyle]_vars

\* the entries of a collection that carry the identifier
Holding(styles, id) == {k \in 1..Len(styles) : styles[k].id = id}

\* C10: a confirmed delete of the style with identifier id removes exactly
\* one entry, the one with that identifier, from the in-memory and from the
\* persisted collection, the other entries keeping their order; a declined
\* confirmation changes nothing.
DeleteRemovesExactlyOne ==
    [][/\ ev'.op = "deleteStyle" =>
            /\ \E k \in Holding(savedStyles, ev'.id) :
                   savedStyles' = RemoveAt(savedStyles, k)
            /\ \E k \in Holding(Parse(stored), ev'.id) :
                   /\ stored'.kind = "json"
                   /\ Parse(stored') = RemoveAt(Parse(stored), k)
       /\ ev'.op = "deleteDeclined" =>
            UNCHANGED <<savedStyles, stored, activeSavedStyle, styleImage,
                        subjectImage, wallState, tasks>>]_vars

\* the active selection is one of the entries of the in-memory collection
ActiveInLibrary(active, styles) ==
    active # NoStyle => \E k \in 1..Len(styles) : styles[k] = active

\* C11: a confirmed delete of the style that is the active selection leaves
\* the active selection empty, whether or not the write of the shrunken
\* collection succeeds, and the active selection never refers to a style
\* that is absent from the in-memory collection.
DeleteClearsActive ==
    [][/\ (ev'.op = "deleteStyle" /\ activeSavedStyle.id = ev'.id)
            => activeSavedStyle' = NoStyle
       /\ ActiveInLibrary(activeSavedStyle', savedStyles')]_vars

\* the handler that a step resumed from its last await and finished
Finished(t) == t \in Suspended /\ tasks' = Resume(t)

\* the step added an entry to the library
Created == ev'.op \in {"importSaved", "styleSaved"} /\ savedStyles' # savedStyles

HasText(s) == s # "" /\ s # Absent /\ s # None
FirstSegment(file) == IF Len(file.name) = 0 THEN "" ELSE file.name[1]
TimestampLabels == {"Style " \o ToString(now) : now \in Clock}

\* C12 as stated: on both creation paths the name of the new entry is the
\* title when it is non-empty, else the stem of the source file's name when
\* there is one, else a timestamp label.
AutoNamePriority ==
    [][\A t \in Suspended :
         (Created /\ Finished(t)) =>
             LET name == savedStyles'[1].name
             IN  IF HasText(t.result.title) THEN name = t.result.title
                 ELSE IF HasText(FirstSegment(t.file)) THEN name = FirstSegment(t.file)
                 ELSE name \in TimestampLabels]_vars

\* C12 amended: an imported style is named by the title when it is
\* non-empty, else by the stem of the file's name when it is non-empty, else
\* "New Style"; a saved result is named by its title when it is non-empty,
\* else by a timestamp label, whatever the name of the style image's file.
AutoNamePerPath ==
    [][\A t \in Suspended :
         (Created /\ Finished(t)) =>
             LET name == savedStyles'[1].name
             IN  IF HasText(t.result.title) THEN name = t.result.title
                 ELSE IF t.kind = "import"
                   THEN IF HasText(FirstSegment(t.file))
                          THEN name = FirstSegment(t.file)
                          ELSE name = "New Style"
                   ELSE name \in TimestampLabels]_vars

\* an untitled result was saved from a style image whose file has a stem,
\* and the library also holds an import named by the default label
AutoNamePerPathWitness ==
    /\ ev.op = "styleSaved"
    /\ Len(savedStyles) = 2
    /\ savedStyles[1].name \in TimestampLabels
    /\ savedStyles[2].name = "New Style"

\* C13: a successful style import issues exactly one reverse-engineer-prompt
\* call and then places the new style first in the in-memory and in the
\* persisted collection, followed by the entries each collection held when
\* the import completed, in unchanged order.
ImportPrepends ==
    [][/\ ev'.op = "importEncoded" => ev'.sent = 1
       /\ ev'.op \in {"handleImportStyle", "importAnalyzed", "importSaved"}
            => ev'.sent = 0
       /\ (ev'.op = "importSaved" /\ ev'.alert = None) =>
            /\ savedStyles' # <<>>
            /\ savedStyles'[1].id = ev'.id
            /\ Tail(savedStyles') = savedStyles
            /\ stored'.kind = "json"
            /\ Parse(stored') # <<>>
            /\ Parse(stored')[1] = savedStyles'[1]
            /\ Tail(Parse(stored')) = Parse(stored)]_vars

\* C14: at most one of the uploaded style image and the selected saved style
\* is set, also while a style-image upload is being encoded; a fusion call
\* is dispatched only when one of them is set, and with the analysis text of
\* the saved style as its style source when a saved style is selected.
StyleModesExclusive ==
    [][/\ ~(styleImage' # NoMedia /\ activeSavedStyle' # NoStyle)
       /\ ev'.op = "handleGenerateWallpaper" =>
            /\ styleImage # NoMedia \/ activeSavedStyle # NoStyle
            /\ \E t \in BagToSet(tasks') :
                 /\ t.kind = "fusion"
                 /\ tasks' = Suspend(t)
                 /\ IF activeSavedStyle # NoStyle
                      THEN /\ t.text = activeSavedStyle.analysis
                           /\ \A k \in 1..Len(t.parts) : t.parts[k] = subjectImage
                      ELSE t.text = None /\ t.parts # <<>> /\ t.parts[1] = styleImage]_vars

\* the write of an import or of a save failed in this step
WriteFailed == ev'.op \in {"importSaved", "styleSaved"} /\ ev'.fault # "none"

\* C15: when the write of an import or of a save fails, the user is told,
\* the in-memory and the persisted collection stay exactly as they were,
\* and the workflow stays usable: the failed import clears the loading flag
\* it set, and the failed save leaves the generation state untouched.
WriteFailureKeepsLibrary ==
    [][WriteFailed =>
            /\ ev'.fault = "caught"
            /\ ev'.alert \in {StorageFullAlert, SaveStorageFullAlert}
            /\ savedStyles' = savedStyles
            /\ stored' = stored
            /\ activeSavedStyle' = activeSavedStyle
            /\ ev'.op = "importSaved" =>
                 /\ ~wallState'.isLoading
                 /\ wallState'.result = wallState.result
            /\ ev'.op = "styleSaved" => wallState' = wallState]_vars

\* after an import whose write failed the library is unchanged and the
\* import control is available again
WriteFailureKeepsLibraryWitness ==
    /\ ev.op = "importSaved"
    /\ ev.alert = StorageFullAlert
    /\ Len(savedStyles) = 1
    /\ Parse(stored) = savedStyles
    /\ LibraryShown
    /\ ~wallState.isLoading
    /\ tasks = EmptyBag

\* C16: every failure of a gateway call, a file encoding or a persistence
\* write is caught inside the action that caused it; no handler is left by
\* an exception with its remaining state updates unexecuted.
NoFaultEscapes == ev.fault # "escaped"


\* ---------------------------------------------------------------------------
\* StockSensei: market insights
\* ---------------------------------------------------------------------------

\* what getMarketInsights can resolve to: JSON.parse of the body, or of "{}"
\* when the body is empty
Insights == {InsightFull, InsightOther, InsightQuiet, InsightBare}

InsightEvent(op, data) == [Did(op) EXCEPT !.data = data]

\* the refresh button, disabled while a fetch is pending
fetchInsights ==
    /\ SenseiShown
    /\ ~Crashed
    /\ ~isInsightLoading
    /\ isInsightLoading' = TRUE
    /\ fetching' = fetching + 1
    /\ UNCHANGED <<insights, selectedEvent>>
    /\ ev' = Did("fetchInsights")
    /\ UNCHANGED <<directorVars, styleVars, seoVars>>

\* getMarketInsights resolves: the snapshot is stored first, then the length
\* of its event list is read, which throws into the catch block when the
\* object has no event list
FetchSelectingWhenUnset(data) ==
    /\ fetching > 0
    /\ ~Crashed
    /\ fetching' = fetching - 1
    /\ insights' = data
    /\ IF data.complete
       THEN /\ selectedEvent' = IF Len(data.upcomingEvents) > 0 /\ selectedEvent = NoEvent
                                THEN data.upcomingEvents[1]
                                ELSE selectedEvent
            /\ ev' = InsightEvent("fetchOk", data)
       ELSE /\ UNCHANGED selectedEvent
            /\ ev' = Caught(InsightEvent("fetchOk", data))
    /\ isInsightLoading' = FALSE
    /\ UNCHANGED <<directorVars, styleVars, seoVars>>

FetchOk(data) ==
    /\ fetching > 0
    /\ ~Crashed
    /\ fetching' = fetching - 1
    /\ insights' = data
    /\ IF data.complete
       THEN /\ selectedEvent' = IF Len(data.upcomingEvents) > 0
                                THEN data.upcomingEvents[1]
                                ELSE selectedEvent
            /\ ev' = InsightEvent("fetchOk", data)
       ELSE /\ UNCHANGED selectedEvent
            /\ ev' = Caught(InsightEvent("fetchOk", data))
    /\ isInsightLoading' = FALSE
    /\ UNCHANGED <<directorVars, styleVars, seoVars>>

\* a finally block that clears one loading flag shared with the SEO panel
FetchFailSharedFlag ==
    /\ fetching > 0
    /\ ~Crashed
    /\ fetching' = fetching - 1
    /\ isInsightLoading' = FALSE
    /\ seoLoading' = FALSE
    /\ UNCHANGED <<insights, selectedEvent>>
    /\ UNCHANGED <<senseiMedia, textInput, inputType, seoResult, seoError,
                   analyses, senseiEncodes>>
    /\ ev' = Caught(Did("fetchFail"))
    /\ UNCHANGED <<directorVars, styleVars>>

\* getMarketInsights rejects: logged to the console, nothing else
FetchFail ==
    /\ fetching > 0
    /\ ~Crashed
    /\ fetching' = fetching - 1
    /\ isInsightLoading' = FALSE
    /\ UNCHANGED <<insights, selectedEvent>>
    /\ ev' = Caught(Did("fetchFail"))
    /\ UNCHANGED <<directorVars, styleVars, seoVars>>

\* a click on one of the event buttons of the rendered snapshot
setSelectedEvent(k) ==
    /\ SenseiShown
    /\ ~Crashed
    /\ ~(isInsightLoading /\ insights = NoInsight)
    /\ insights # NoInsight
    /\ k \in 1..Len(insights.upcomingEvents)
    /\ selectedEvent' = insights.upcomingEvents[k]
    /\ UNCHANGED <<insights, isInsightLoading, fetching>>
    /\ ev' = Did("selectEvent")
    /\ UNCHANGED <<directorVars, styleVars, seoVars>>

\* ---------------------------------------------------------------------------
\* StockSensei: SEO analysis
\* ---------------------------------------------------------------------------

Texts == {<<>>, <<" ">>, <<"c">>}
SenseiFiles == {FilePhoto, FileHuge}
SeoResponses == {SeoFull, SeoBare}
SeoServiceFallback == "StockSensei SEO generation failed."
\* the component's own fallback, "SEO 生成失敗"
SeoFallback == "SEO sheng cheng shi bai"

\* the input panel is rendered while there is no result
SeoInputShown == SenseiShown /\ ~Crashed /\ seoResult = NoSeo

\* the argument of generateStockSenseiAnalysis
TextPayload(text) == [type |-> "text", media |-> NoMedia, textContent |-> text]
MediaPayload(m) == [type |-> m.type, media |-> m, textContent |-> <<>>]

setInputType(t) ==
    /\ SeoInputShown
    /\ inputType' = t
    /\ UNCHANGED <<senseiMedia, textInput, seoLoading, seoResult, seoError,
                   analyses, senseiEncodes>>
    /\ ev' = Did("setInputType")
    /\ UNCHANGED <<directorVars, styleVars, insightVars>>

setTextInput(text) ==
    /\ SeoInputShown
    /\ inputType = "text"
    /\ textInput' = text
    /\ UNCHANGED <<senseiMedia, inputType, seoLoading, seoResult, seoError,
                   analyses, senseiEncodes>>
    /\ ev' = Did("setTextInput")
    /\ UNCHANGED <<directorVars, styleVars, insightVars>>

\* FileUpload.handleFileChange inside StockSensei, up to the await
SenseiFileChange(file) ==
    /\ SeoInputShown
    /\ inputType = "file"
    /\ senseiMedia = NoMedia
    /\ ~seoLoading
    /\ IF TooLarge(file)
         THEN /\ ev' = Event("senseiFileChange", file, FALSE, 0, "File is too large.", NoResult)
              /\ UNCHANGED senseiEncodes
         ELSE IF ~ValidType(file)
         THEN /\ ev' = Event("senseiFileChange", file, FALSE, 0, "Please upload a valid image or video file.", NoResult)
              /\ UNCHANGED senseiEncodes
         ELSE /\ Len(senseiEncodes) < MaxEncodes
              /\ senseiEncodes' = Append(senseiEncodes, file)
              /\ ev' = Event("senseiFileChange", file, FALSE, 0, None, NoResult)
    /\ UNCHANGED <<senseiMedia, textInput, inputType, seoLoading, seoResult,
                   seoError, analyses>>
    /\ UNCHANGED <<directorVars, styleVars, insightVars>>

\* after the await: onFileSelect, which is StockSensei.handleFileSelect
SenseiFileEncoded(i) ==
    /\ i \in 1..Len(senseiEncodes)
    /\ ~Crashed
    /\ senseiMedia' = MediaFile(senseiEncodes[i], KindOf(senseiEncodes[i]))
    /\ seoResult' = NoSeo
    /\ seoError' = None
    /\ senseiEncodes' = RemoveAt(senseiEncodes, i)
    /\ ev' = Event("senseiFileEncoded", senseiEncodes[i], TRUE, 0, None, NoResult)
    /\ UNCHANGED <<textInput, inputType, seoLoading, analyses>>
    /\ UNCHANGED <<directorVars, styleVars, insightVars>>

\* after the await: the catch branch
SenseiFileEncodeFailed(i) ==
    /\ i \in 1..Len(senseiEncodes)
    /\ ~Crashed
    /\ senseiEncodes' = RemoveAt(senseiEncodes, i)
    /\ ev' = Caught(Event("senseiFileEncodeFailed", senseiEncodes[i], FALSE, 0,
                          "Failed to process file.", NoResult))
    /\ UNCHANGED <<senseiMedia, textInput, inputType, seoLoading, seoResult,
                   seoError, analyses>>
    /\ UNCHANGED <<directorVars, styleVars, insightVars>>

\* the button on the preview: setMedia(null)
SenseiClearMedia ==
    /\ SeoInputShown
    /\ inputType = "file"
    /\ senseiMedia # NoMedia
    /\ senseiMedia' = NoMedia
    /\ UNCHANGED <<textInput, inputType, seoLoading, seoResult, seoError,
                   analyses, senseiEncodes>>
    /\ ev' = Did("senseiClearMedia")
    /\ UNCHANGED <<directorVars, styleVars, insightVars>>

\* a handler that sends whatever is attached along with the text
handleAnalyzeAttaching ==
    /\ SeoInputShown
    /\ ~seoLoading
    /\ ~(inputType = "file" /\ senseiMedia = NoMedia)
    /\ ~(inputType = "text" /\ ~Truthy(Trim(textInput)))
    /\ seoLoading' = TRUE
    /\ seoError' = None
    /\ analyses' = Append(analyses, IF inputType = "text"
                                    THEN [TextPayload(textInput) EXCEPT !.media = senseiMedia]
                                    ELSE MediaPayload(senseiMedia))
    /\ UNCHANGED <<senseiMedia, textInput, inputType, seoResult, senseiEncodes>>
    /\ ev' = Did("handleAnalyze")
    /\ UNCHANGED <<directorVars, styleVars, insightVars>>

\* the Generate SEO button, with its disabled condition, up to the await
handleAnalyze ==
    /\ SeoInputShown
    /\ ~seoLoading
    /\ ~(inputType = "file" /\ senseiMedia = NoMedia)
    /\ ~(inputType = "text" /\ ~Truthy(Trim(textInput)))
    /\ seoLoading' = TRUE
    /\ seoError' = None
    /\ analyses' = Append(analyses, IF inputType = "text"
                                    THEN TextPayload(textInput)
                                    ELSE MediaPayload(senseiMedia))
    /\ UNCHANGED <<senseiMedia, textInput, inputType, seoResult, senseiEncodes>>
    /\ ev' = Did("handleAnalyze")
    /\ UNCHANGED <<directorVars, styleVars, insightVars>>

\* generateStockSenseiAnalysis resolves
AnalyzeOk(i, data) ==
    /\ i \in 1..Len(analyses)
    /\ ~Crashed
    /\ seoResult' = data
    /\ seoLoading' = FALSE
    /\ analyses' = RemoveAt(analyses, i)
    /\ UNCHANGED <<senseiMedia, textInput, inputType, seoError, senseiEncodes>>
    /\ ev' = Did("analyzeOk")
    /\ UNCHANGED <<directorVars, styleVars, insightVars>>

\* generateStockSenseiAnalysis rejects with the backend's message or its own
\* fallback
AnalyzeFail(i, msg) ==
    /\ i \in 1..Len(analyses)
    /\ ~Crashed
    /\ seoError' = ErrorText(ErrorText(msg, SeoServiceFallback), SeoFallback)
    /\ seoLoading' = FALSE
    /\ analyses' = RemoveAt(analyses, i)
    /\ UNCHANGED <<senseiMedia, textInput, inputType, seoResult, senseiEncodes>>
    /\ ev' = Caught(Did("analyzeFail"))
    /\ UNCHANGED <<directorVars, styleVars, insightVars>>

\* the button under a shown result
SeoReset ==
    /\ SenseiShown
    /\ ~Crashed
    /\ seoResult # NoSeo
    /\ seoResult' = NoSeo
    /\ senseiMedia' = NoMedia
    /\ textInput' = <<>>
    /\ UNCHANGED <<inputType, seoLoading, seoError, analyses, senseiEncodes>>
    /\ ev' = Did("seoReset")
    /\ UNCHANGED <<directorVars, styleVars, insightVars>>

NextSensei ==
    \/ \E mode \in {"director", "stocksensei"} : SetAppMode(mode)
    \/ fetchInsights
    \/ \E data \in Insights : FetchOk(data)
    \/ FetchFail
    \/ \E k \in 1..2 : setSelectedEvent(k)
    \/ \E t \in {"file", "text"} : setInputType(t)
    \/ \E text \in Texts : setTextInput(text)
    \/ \E file \in SenseiFiles : SenseiFileChange(file)
    \/ \E i \in 1..MaxEncodes : SenseiFileEncoded(i)
    \/ \E i \in 1..MaxEncodes : SenseiFileEncodeFailed(i)
    \/ SenseiClearMedia
    \/ handleAnalyze
    \/ \E i \in 1..MaxCalls, data \in SeoResponses : AnalyzeOk(i, data)
    \/ \E i \in 1..MaxCalls, msg \in FailMessages : AnalyzeFail(i, msg)
    \/ SeoReset

SpecSensei == Init /\ [][NextSensei]_vars

\* C17: when a market-insight fetch succeeds, the snapshot becomes the fetched
\* data as a whole, and when that data lists at least one event the selected
\* event becomes its first event.
FetchStoresSnapshot ==
    [][ev'.op = "fetchOk" =>
          /\ insights' = ev'.data
          /\ Len(ev'.data.upcomingEvents) > 0 =>
                selectedEvent' = ev'.data.upcomingEvents[1]]_vars

\* a refresh replaced a shown snapshot and a selection made by hand
FetchStoresSnapshotWitness ==
    /\ ev.op = "fetchOk"
    /\ insights = InsightOther
    /\ selectedEvent = EventHoliday
    /\ fetching = 0
    /\ ~isInsightLoading


\* C18: the insight snapshot changes only in a step where a fetch succeeds;
\* starting a fetch leaves the snapshot as it was, and a failed fetch leaves
\* the snapshot, the selected event and the error state as they were.
SnapshotChangesOnSuccessOnly ==
    [][/\ insights' # insights => (ev'.op = "fetchOk" /\ ev'.fault = "none")
       /\ ev'.op = "fetchInsights" => insights' = insights
       /\ ev'.op = "fetchFail" =>
             UNCHANGED <<insights, selectedEvent, seoError>>]_vars


\* ---------------------------------------------------------------------------
\* The director recipes with every body the backend can answer with
\* ---------------------------------------------------------------------------

\* geminiService.ts returns JSON.parse(response.text || "{}"): a body with
\* all fields, a body without a title, and the object of an empty body
GatewayResponses == {RespTitled, RespPlain, RespEmpty}

NextGateway ==
    \/ handleReset
    \/ handleGenerate
    \/ \E c \in InFlight, response \in GatewayResponses : GenerateOk(c, response)
    \/ \E c \in InFlight, msg \in FailMessages : GenerateFail(c, msg)
    \/ \E file \in {FilePhoto, FileClip} : handleFileChange(file)
    \/ \E i \in 1..Len(encodes) : FileEncoded(i)
    \/ \E tab \in {"refine", "image-to-video"} : ToggleTab(tab)
    \/ \E text \in FeedbackInputs : TypeFeedback(text)
    \/ \E target \in Targets : \E file \in FilesFor(target) : handleMediaUpload(file, target)
    \/ \E i \in 1..Len(encodes) : MediaEncoded(i)
    \/ handleRefineSubmit
    \/ \E c \in InFlight, response \in GatewayResponses : RefineOk(c, response)
    \/ \E c \in InFlight, msg \in FailMessages : RefineFail(c, msg)
    \/ handleVideoPromptSubmit
    \/ \E c \in InFlight, response \in GatewayResponses : AdvanceOk(c, response)
    \/ \E c \in InFlight, msg \in FailMessages : AdvanceFail(c, msg)

SpecGateway == Init /\ [][NextGateway]_vars

HasFields(r) == TruthyText(r.analysis) /\ TruthyText(r.prompt)

\* C19: a stored result always has both its analysis and its prompt, in the
\* director workflow and likewise in SEO and market insights; a response
\* without them is reported as an error and never stored.
StoredResultComplete ==
    /\ generationState.result # NoResult => HasFields(generationState.result)
    /\ seoResult # NoSeo => seoResult.complete
    /\ insights # NoInsight => insights.complete


\* the control that would dispatch the recipe of call c again is available and
\* would send the parts c carried
RetryOffered(c) ==
    IF c.recipe = "reversePrompt"
    THEN GenerateShown /\ media # NoMedia /\ c.parts = <<media>>
    ELSE IF c.recipe = "refineImage"
    THEN /\ PanelShown /\ activeTab = "refine" /\ ~RefineDisabled
         /\ phase = "image-prompt"
         /\ c.parts = RefineImageParts
    ELSE IF c.recipe = "refineVideo"
    THEN /\ PanelShown /\ activeTab = "refine" /\ ~RefineDisabled
         /\ phase = "video-prompt" /\ generatedImage # NoMedia
         /\ c.parts = RefineVideoParts
    ELSE /\ PanelShown /\ activeTab = "image-to-video"
         /\ generatedImage # NoMedia
         /\ c.parts = <<media, generatedImage>>

\* C20: right after a director call has failed while the director view is on
\* screen, the same action with the same inputs can be issued again by hand.
FailureOffersSameRetry ==
    [][ev'.op \in FailOps /\ appMode = "director" =>
          \A c \in InFlight : calls' = Complete(c) => RetryOffered(c)']_vars


DispatchOps == {"handleGenerate", "handleRefineSubmit", "handleVideoPromptSubmit"}

\* C21: the number of director requests in flight grows only in a step of a
\* user's generate, refine or advance action, and then by exactly one; the
\* step that handles a failed request takes that request away and dispatches
\* nothing in its place.
NoAutomaticRetry ==
    [][/\ Outstanding' > Outstanding =>
             (ev'.op \in DispatchOps /\ ev'.sent = 1 /\ Outstanding' = Outstanding + 1)
       /\ ev'.op \in FailOps => Outstanding' = Outstanding - 1]_vars

\* a generation has failed and nothing is in flight afterwards
NoAutomaticRetryWitness ==
    /\ ev.op = "generateFail"
    /\ generationState.error # None
    /\ Outstanding = 0


Entries(styles) == {styles[k] : k \in 1..Len(styles)}

\* C22: when an import or a save completes, every style that was in the
\* library just before is still in it, and no style other than the new one
\* enters it: a style deleted (or added) while the handler was suspended is
\* neither brought back nor dropped.
NoLostLibraryEdit ==
    [][ev'.op \in {"importSaved", "styleSaved"} /\ ev'.alert \notin {StorageFullAlert, SaveStorageFullAlert} =>
          /\ Entries(savedStyles) \subseteq Entries(savedStyles')
          /\ savedStyles' # <<>>
          /\ Entries(Tail(savedStyles')) \subseteq Entries(savedStyles)]_vars


DistinctIds(styles) ==
    \A i, j \in 1..Len(styles) : i # j => styles[i].id # styles[j].id

\* C23: no two entries of the library in memory, and no two entries of the
\* stored library, have the same identifier.
IdentifiersUnique ==
    /\ DistinctIds(savedStyles)
    /\ DistinctIds(Parse(stored))


\* ---------------------------------------------------------------------------
\* The ResultDisplay inside WallpaperGenerator
\* ---------------------------------------------------------------------------

\* a MIME type that was never set
MimeUndefined == <<"undefined">>

\* the media prop: styleImage || { previewUrl, type: 'image',
\* file: new File([], ''), base64Data: '' }
Placeholder == [file |-> NoFile, type |-> "image", base64Data |-> <<>>,
                mimeType |-> MimeUndefined]
WallMedia == IF styleImage # NoMedia THEN styleImage ELSE Placeholder

WallPanelShown ==
    /\ WallDisplayShown
    /\ ~wallState.isLoading
    /\ ~wallDisplay.isRefining

WallFrame ==
    /\ UNCHANGED <<styleImage, subjectImage, savedStyles, activeSavedStyle, stored>>
    /\ UNCHANGED <<directorVars, senseiVars>>

\* WallpaperGenerator.handleUpdateResult
WallUpdateResult(newResult) == wallState' = [wallState EXCEPT !.result = newResult]

WallToggleTab(tab) ==
    /\ WallPanelShown
    /\ tab = "image-to-video" => wallDisplay.phase = "image-prompt"
    /\ wallDisplay' = [wallDisplay EXCEPT
                          !.activeTab = IF @ = tab THEN "none" ELSE tab]
    /\ ev' = Did("ui")
    /\ UNCHANGED <<wallState, tasks>>
    /\ WallFrame

WallTypeFeedback(text) ==
    /\ WallPanelShown
    /\ wallDisplay.activeTab = "refine"
    /\ text # wallDisplay.feedbackText
    /\ wallDisplay' = [wallDisplay EXCEPT !.feedbackText = text]
    /\ ev' = Did("ui")
    /\ UNCHANGED <<wallState, tasks>>
    /\ WallFrame

WallInputShown(target) ==
    /\ WallPanelShown
    /\ CASE target = "badImage" ->
              /\ wallDisplay.activeTab = "refine"
              /\ wallDisplay.phase = "image-prompt"
              /\ wallDisplay.badResultImage = NoMedia
         [] target = "badVideo" ->
              /\ wallDisplay.activeTab = "refine"
              /\ wallDisplay.phase = "video-prompt"
              /\ wallDisplay.badResultVideo = NoMedia
         [] target = "generated" ->
              /\ wallDisplay.activeTab = "image-to-video"
              /\ wallDisplay.generatedImage = NoMedia

\* ResultDisplay.handleMediaUpload up to the await
WallMediaUpload(file, target) ==
    /\ WallInputShown(target)
    /\ BagCardinality(tasks) < MaxTasks
    /\ tasks' = Suspend(Task("media", "encode", file, <<>>, NoResult, "", target,
                             <<>>, None))
    /\ ev' = Event("handleMediaUpload", file, FALSE, 0, None, NoResult)
    /\ UNCHANGED <<wallState, wallDisplay>>
    /\ WallFrame

\* after the await: setter({...}), without effect once the display is gone
WallMediaEncoded(t) ==
    /\ t.kind = "media"
    /\ tasks' = Resume(t)
    /\ LET m == MediaFile(t.file, ForcedType(t.slot))
       IN wallDisplay' =
             IF t.stage = "orphaned" THEN wallDisplay
             ELSE CASE t.slot = "generated" -> [wallDisplay EXCEPT !.generatedImage = m]
                    [] t.slot = "badImage" -> [wallDisplay EXCEPT !.badResultImage = m]
                    [] t.slot = "badVideo" -> [wallDisplay EXCEPT !.badResultVideo = m]
    /\ ev' = Event("mediaEncoded", t.file, t.stage # "orphaned", 0, None, NoResult)
    /\ UNCHANGED wallState
    /\ WallFrame

\* after the await: the catch branch
WallMediaEncodeFailed(t) ==
    /\ t.kind = "media"
    /\ tasks' = Resume(t)
    /\ ev' = Caught(Event("mediaEncodeFailed", t.file, FALSE, 0,
                          "Failed to load media", NoResult))
    /\ UNCHANGED <<wallState, wallDisplay>>
    /\ WallFrame

WallRefineDisabled ==
    /\ ~Truthy(Trim(wallDisplay.feedbackText))
    /\ wallDisplay.badResultImage = NoMedia
    /\ wallDisplay.badResultVideo = NoMedia

WallHasBadMedia ==
    IF wallDisplay.phase = "image-prompt"
    THEN wallDisplay.badResultImage # NoMedia
    ELSE wallDisplay.badResultVideo # NoMedia

Optional(m) == IF m # NoMedia THEN <<m>> ELSE <<>>

\* refinePromptWithFeedback(media, result, feedback, badMedia, additionalMedia)
WallRefineImageParts ==
    <<WallMedia>> \o Optional(wallDisplay.badResultImage) \o Optional(subjectImage)

\* refineVideoPromptWithFeedback(media, generatedImage, result, feedback, badVideo)
WallRefineVideoParts ==
    <<WallMedia, wallDisplay.generatedImage>> \o Optional(wallDisplay.badResultVideo)

CallTask(kind, recipe, parts) ==
    Task(kind, "call", NoFile, <<>>, NoResult, "", recipe, parts, None)

\* ResultDisplay.handleRefineSubmit up to the await
WallRefineSubmit ==
    /\ WallPanelShown
    /\ wallDisplay.activeTab = "refine"
    /\ IF WallRefineDisabled
         THEN /\ ev' = Did("refineDisabled")
              /\ UNCHANGED <<wallDisplay, tasks>>
         ELSE IF ~Truthy(Trim(wallDisplay.feedbackText)) /\ ~WallHasBadMedia
         THEN /\ ev' = Alerted("handleRefineSubmit", "enter feedback or upload the bad result")
              /\ UNCHANGED <<wallDisplay, tasks>>
         ELSE IF wallDisplay.phase = "image-prompt"
         THEN /\ BagCardinality(tasks) < MaxTasks
              /\ wallDisplay' = [wallDisplay EXCEPT !.isRefining = TRUE]
              /\ tasks' = Suspend(CallTask("refine", "refineImage", WallRefineImageParts))
              /\ ev' = Event("handleRefineSubmit", NoFile, FALSE, 1, None, NoResult)
         ELSE IF wallDisplay.generatedImage = NoMedia
         THEN /\ ev' = Caught(Alerted("handleRefineSubmit",
                                      "Refinement failed. Please try again."))
              /\ UNCHANGED <<wallDisplay, tasks>>
         ELSE /\ BagCardinality(tasks) < MaxTasks
              /\ wallDisplay' = [wallDisplay EXCEPT !.isRefining = TRUE]
              /\ tasks' = Suspend(CallTask("refine", "refineVideo", WallRefineVideoParts))
              /\ ev' = Event("handleRefineSubmit", NoFile, FALSE, 1, None, NoResult)
    /\ UNCHANGED wallState
    /\ WallFrame

\* after the await, resolved: onUpdateResult, then the local setters
WallRefineOk(t, newResponse) ==
    /\ t.kind = "refine"
    /\ tasks' = Resume(t)
    /\ WallUpdateResult(newResponse)
    /\ wallDisplay' =
          IF t.stage = "orphaned"
          THEN wallDisplay
          ELSE [wallDisplay EXCEPT !.feedbackText = <<>>, !.badResultImage = NoMedia,
                                   !.badResultVideo = NoMedia, !.activeTab = "none",
                                   !.isRefining = FALSE]
    /\ ev' = Event("refineOk", NoFile, FALSE, 0, None, newResponse)
    /\ WallFrame

\* after the await, rejected
WallRefineFail(t) ==
    /\ t.kind = "refine"
    /\ tasks' = Resume(t)
    /\ wallDisplay' = IF t.stage = "orphaned" THEN wallDisplay
                      ELSE [wallDisplay EXCEPT !.isRefining = FALSE]
    /\ ev' = Caught(Event("refineFail", NoFile, FALSE, 0,
                          "Refinement failed. Please try again.", NoResult))
    /\ UNCHANGED wallState
    /\ WallFrame

\* ResultDisplay.handleVideoPromptSubmit up to the await
WallVideoPromptSubmit ==
    /\ WallPanelShown
    /\ wallDisplay.activeTab = "image-to-video"
    /\ IF wallDisplay.generatedImage = NoMedia
         THEN /\ ev' = Did("advanceDisabled")
              /\ UNCHANGED <<wallDisplay, tasks>>
         ELSE /\ BagCardinality(tasks) < MaxTasks
              /\ wallDisplay' = [wallDisplay EXCEPT !.isRefining = TRUE]
              /\ tasks' = Suspend(CallTask("advance", "imageToVideo",
                                           <<WallMedia, wallDisplay.generatedImage>>))
              /\ ev' = Event("handleVideoPromptSubmit", NoFile, FALSE, 1, None, NoResult)
    /\ UNCHANGED wallState
    /\ WallFrame

WallAdvanceOk(t, newResponse) ==
    /\ t.kind = "advance"
    /\ tasks' = Resume(t)
    /\ WallUpdateResult(newResponse)
    /\ wallDisplay' =
          IF t.stage = "orphaned"
          THEN wallDisplay
          ELSE [wallDisplay EXCEPT !.phase = "video-prompt", !.activeTab = "none",
                                   !.isRefining = FALSE]
    /\ ev' = Event("advanceOk", NoFile, FALSE, 0, None, newResponse)
    /\ WallFrame

WallAdvanceFail(t) ==
    /\ t.kind = "advance"
    /\ tasks' = Resume(t)
    /\ wallDisplay' = IF t.stage = "orphaned" THEN wallDisplay
                      ELSE [wallDisplay EXCEPT !.isRefining = FALSE]
    /\ ev' = Caught(Event("advanceFail", NoFile, FALSE, 0, "Analysis failed.", NoResult))
    /\ UNCHANGED wallState
    /\ WallFrame

\* a session that finds one style in local storage
KeptStyle == [id |-> 1, name |-> "kept", analysis |-> "warm tones",
              thumbnailUrl |-> Thumbnail(FilePhoto)]

InitWall == InitWith(Stringify(<<KeptStyle>>))

WallSlots == {"style", "subject"}
WallTargets == {"badImage", "generated"}

NextWall ==
    \/ \E slot \in WallSlots : WallpaperFileChange(FilePhoto, slot)
    \/ \E t \in Suspended : WallpaperFileEncoded(t)
    \/ \E slot \in WallSlots : ClearImage(slot)
    \/ \E k \in 1..Len(savedStyles) : handleSelectStyle(k)
    \/ handleClearStyle
    \/ handleGenerateWallpaper
    \/ \E t \in Suspended, response \in Responses : FusionOk(t, response)
    \/ \E t \in Suspended, msg \in FailMessages : FusionFail(t, msg)
    \/ handleFullReset
    \/ \E tab \in {"refine", "image-to-video"} : WallToggleTab(tab)
    \/ \E text \in FeedbackInputs : WallTypeFeedback(text)
    \/ \E target \in WallTargets : WallMediaUpload(FilePhoto, target)
    \/ \E t \in Suspended : WallMediaEncoded(t)
    \/ \E t \in Suspended : WallMediaEncodeFailed(t)
    \/ WallRefineSubmit
    \/ \E t \in Suspended, response \in Responses : WallRefineOk(t, response)
    \/ \E t \in Suspended : WallRefineFail(t)
    \/ WallVideoPromptSubmit
    \/ \E t \in Suspended, response \in Responses : WallAdvanceOk(t, response)
    \/ \E t \in Suspended : WallAdvanceFail(t)

SpecWall == InitWall /\ [][NextWall]_vars

WellFormed(m) ==
    /\ m.type = "text" => (m.base64Data = <<>> /\ m.mimeType \in {<<>>, MimeUndefined})
    /\ m.type \in {"image", "video"} =>
          (m.base64Data # <<>> /\ m.mimeType \notin {<<>>, MimeUndefined})

\* C24: every media descriptor attached to the wallpaper workflow, and every
\* inline media part of a call it has dispatched, is well formed: an image or
\* a video has a payload and a MIME type.
DescriptorsWellFormed ==
    /\ \A m \in {styleImage, subjectImage, wallDisplay.generatedImage,
                  wallDisplay.badResultImage, wallDisplay.badResultVideo} :
          m # NoMedia => WellFormed(m)
    /\ \A t \in Suspended : \A k \in 1..Len(t.parts) : WellFormed(t.parts[k])


\* the Save Style button is rendered with a result and without a selected
\* saved style
SaveOffered == wallState.result # NoResult /\ activeSavedStyle = NoStyle

SelectionNeverStale ==
    [][(ev'.op = "fetchOk" /\ ev'.fault = "none") =>
          \/ selectedEvent' = NoEvent
          \/ \E k \in 1..Len(insights'.upcomingEvents) :
                selectedEvent' = insights'.upcomingEvents[k]]_vars


\* ---------------------------------------------------------------------------
\* The style library across sessions
\* ---------------------------------------------------------------------------

\* what a session can find in local storage: nothing, text that does not
\* parse, or the library an earlier session wrote
StoredItems == {NoItem, CorruptItem, Stringify(<<KeptStyle>>)}

InitLibrary == \E item \in StoredItems : InitWith(item)

NextLibrary ==
    \/ Mount
    \/ \E file \in ImportFiles : handleImportStyle(file)
    \/ \E t \in Suspended : ImportEncoded(t)
    \/ \E t \in Suspended, response \in ImportResponses : ImportAnalyzed(t, response)
    \/ \E t \in Suspended, msg \in FailMessages : ImportFailed(t, msg)
    \/ \E t \in Suspended, now \in Clock, writable \in BOOLEAN :
          ImportThumbnailed(t, now, writable)
    \/ \E k \in 1..Len(savedStyles), confirmed \in BOOLEAN, writable \in BOOLEAN :
          handleDeleteStyle(k, confirmed, writable)

SpecLibrary == InitLibrary /\ [][NextLibrary]_vars

\* C27: a write that succeeds stores the library exactly as memory holds it
\* after the write, and a mount loads the stored library entry by entry in
\* the stored order; a mount that finds nothing, or text that does not
\* parse, starts with an empty library and without a fault.
PersistenceRoundTrip ==
    [][/\ stored' # stored =>
             (stored'.kind = "json" /\ Parse(stored') = savedStyles')
       /\ ev'.op = "mount" =>
             /\ stored' = stored
             /\ ev'.fault = "none"
             /\ stored.kind = "json" => savedStyles' = Parse(stored)
             /\ stored.kind # "json" => savedStyles' = <<>>]_vars

\* a session wrote a library of two entries, one of them without an
\* analysis, and the next session has loaded it
PersistenceRoundTripWitness ==
    /\ ev.op = "mount"
    /\ Len(savedStyles) = 2
    /\ savedStyles = Parse(stored)
    /\ \E k \in 1..2 : savedStyles[k].analysis = Absent


\* the text a failed gateway call puts before the user: the error panel
\* of the generation state, or the alert of the result panel
Reported ==
    IF ev.op = "generateFail" THEN generationState.error ELSE ev.alert

Fallbacks == {GenerateFallback, "Refinement failed. Please try again.",
              "Analysis failed."}

\* C28: after a failed gateway call of any recipe, refine and advance
\* included, the reported text is the backend's message when the failure
\* has one and a fixed fallback text otherwise.
FailureCarriesBackendMessage ==
    [][ev'.op \in FailOps =>
          IF ev'.cause # "" THEN Reported' = ev'.cause
                            ELSE Reported' \in Fallbacks]_vars


\* C29: an SEO call is dispatched only while no SEO call is loading and the
\* selected input mode has input (file mode: an attached descriptor; text
\* mode: text with more than white space), and the request holds the input
\* of the selected mode alone: in text mode a text descriptor without the
\* attached file, in file mode the attached descriptor without the text.
SeoDispatchGuarded ==
    [][Len(analyses') > Len(analyses) =>
          /\ ~seoLoading
          /\ Len(analyses') = Len(analyses) + 1
          /\ inputType = "file" =>
                /\ senseiMedia # NoMedia
                /\ analyses'[Len(analyses')] =
                      [type |-> senseiMedia.type, media |-> senseiMedia,
                       textContent |-> <<>>]
          /\ inputType = "text" =>
                /\ \E k \in 1..Len(textInput) : ~IsSpace(textInput[k])
                /\ analyses'[Len(analyses')] =
                      [type |-> "text", media |-> NoMedia,
                       textContent |-> textInput]]_vars

\* a text request in flight while a file is attached as well
SeoDispatchGuardedWitness ==
    /\ ev.op = "handleAnalyze"
    /\ inputType = "text"
    /\ senseiMedia # NoMedia
    /\ Len(analyses) = 1
    /\ analyses[1].type = "text"


EncodeFailOps == {"fileEncodeFailed", "mediaEncodeFailed"}

\* C30: a failed encoding of an accepted file is caught and reported with
\* an alert, delivers no descriptor, leaves the attached media, the media of
\* the result panel and the active result as they were, and leaves every
\* upload control that was offered still offered with room for a new
\* encoding, so that a later upload can be delivered.
EncodeFailureRecoverable ==
    [][ev'.op \in EncodeFailOps =>
          /\ ev'.fault = "caught"
          /\ ev'.alert # None
          /\ ~ev'.delivered
          /\ media' = media
          /\ generationState' = generationState
          /\ <<generatedImage, badResultImage, badResultVideo>>' =
                <<generatedImage, badResultImage, badResultVideo>>
          /\ Len(encodes') < Len(encodes)
          /\ UploadShown' = UploadShown
          /\ \A target \in {"badImage", "badVideo", "generated"} :
                InputShown(target)' = InputShown(target)]_vars

\* the encoding of a reference picture failed while media is attached and a
\* result is shown, and the control it came from is offered again
EncodeFailureRecoverableWitness ==
    /\ ev.op = "mediaEncodeFailed"
    /\ media # NoMedia
    /\ generationState.result # NoResult
    /\ InputShown("badImage")
    /\ encodes = <<>>


InsightOps == {"fetchInsights", "fetchOk", "fetchFail"}
SeoOps == {"handleAnalyze", "analyzeOk", "analyzeFail"}

\* C31: a step of a market-insight fetch (its dispatch, its success, its
\* failure) leaves the SEO result, the SEO loading flag and the SEO error
\* as they were, and a step of an SEO analysis leaves the insight snapshot,
\* the selected event and the insight loading flag as they were, also
\* while a call of the other kind is in flight.
InsightAndSeoIndependent ==
    [][/\ ev'.op \in InsightOps =>
             <<seoResult, seoLoading, seoError, analyses>>' =
                <<seoResult, seoLoading, seoError, analyses>>
       /\ ev'.op \in SeoOps =>
             <<insights, selectedEvent, isInsightLoading, fetching>>' =
                <<insights, selectedEvent, isInsightLoading, fetching>>]_vars

\* a fetch failed while an SEO analysis is in flight and shown as loading
InsightAndSeoIndependentWitness ==
    /\ ev.op = "fetchFail"
    /\ Len(analyses) = 1
    /\ seoLoading
    /\ ~isInsightLoading


\* ---------------------------------------------------------------------------
\* Voice dictation in the refine tab
\* ---------------------------------------------------------------------------
NextVoice ==
    \/ handleReset
    \/ handleGenerate
    \/ \E c \in InFlight : GenerateOk(c, RespTitled)
    \/ \E c \in InFlight, msg \in FailMessages : GenerateFail(c, msg)
    \/ handleFileChange(FilePhoto)
    \/ \E i \in 1..Len(encodes) : FileEncoded(i)
    \/ ToggleTab("refine")
    \/ \E text \in FeedbackInputs : TypeFeedback(text)
    \/ \E available \in BOOLEAN : toggleListening(available)
    \/ SpeechStart
    \/ SpeechResult
    \/ SpeechEnd
    \/ handleRefineSubmit
    \/ \E c \in InFlight : RefineOk(c, RespTitled)
    \/ \E c \in InFlight, msg \in FailMessages : RefineFail(c, msg)

SpecVoice == Init /\ [][NextVoice]_vars

\* C32: the step that stops dictation sets listening to false and leaves
\* the attached media, the active result with its loading flag, the phase,
\* the tab, the feedback text, the refining flag, the reference media and
\* the calls in flight as they were; the step that starts dictation on a
\* runtime without speech recognition shows an alert and leaves listening
\* false and the feedback text as it was.
StopListeningOnly ==
    [][/\ ev'.op = "stopListening" =>
             /\ isListening /\ ~isListening'
             /\ <<appMode, media, generationState, calls, encodes>>' =
                   <<appMode, media, generationState, calls, encodes>>
             /\ <<phase, activeTab, feedbackText, isRefining, generatedImage,
                  badResultImage, badResultVideo>>' =
                   <<phase, activeTab, feedbackText, isRefining, generatedImage,
                     badResultImage, badResultVideo>>
       /\ (ev'.op = "startListening" /\ ev'.alert # None) =>
             /\ ~isListening'
             /\ feedbackText' = feedbackText
             /\ recognition' = recognition]_vars

\* dictation was stopped with feedback typed and a generation call of an
\* earlier upload still in flight
StopListeningOnlyWitness ==
    /\ ev.op = "stopListening"
    /\ feedbackText # <<>>
    /\ Outstanding > 0
    /\ generationState.result # NoResult


\* C33: the active result belongs to the attached media: without attached
\* media there is no active result, and a step in which a response becomes
\* the active result completes a call that was dispatched for the media
\* attached in that step.
ResultBelongsToMedia ==
    [][/\ media' = NoMedia => generationState'.result = NoResult
       /\ (ev'.op \in OkOps /\ generationState'.result # NoResult) =>
             \E c \in InFlight : Completed(c) /\ c.parts[1] = media']_vars


\* C34: while a generation call is outstanding the loading flag of App is
\* true, while a refinement or advance call is outstanding the refining
\* flag of the result panel is true, and while a style import or a fusion
\* is in progress the loading flag of the wallpaper studio is true.
LoadingAccurate ==
    /\ (\E c \in InFlight : c.recipe = "reversePrompt") => generationState.isLoading
    /\ (\E c \in InFlight : c.recipe # "reversePrompt") => isRefining
    /\ (\E t \in Suspended : t.kind \in {"import", "fusion"}) => wallState.isLoading


\* ---------------------------------------------------------------------------
\* The loading flags of the four views, each with its calls
\* ---------------------------------------------------------------------------

\* the steps in which an awaited call settles and its handler runs to its end
Completions ==
    \/ \E c \in InFlight : GenerateOk(c, RespTitled)
    \/ \E c \in InFlight : GenerateFail(c, BackendMsg)
    \/ \E c \in InFlight : RefineOk(c, RespTitled)
    \/ \E c \in InFlight : RefineFail(c, BackendMsg)
    \/ FetchOk(InsightFull)
    \/ FetchFail
    \/ AnalyzeOk(1, SeoFull)
    \/ AnalyzeFail(1, BackendMsg)
    \/ \E t \in Suspended : ImportEncoded(t)
    \/ \E t \in Suspended : ImportAnalyzed(t, RespTitled)
    \/ \E t \in Suspended : ImportFailed(t, BackendMsg)
    \/ \E t \in Suspended, writable \in BOOLEAN : ImportThumbnailed(t, 1, writable)

NextFlags ==
    \/ Completions
    \/ \E mode \in {"director", "stocksensei"} : SetAppMode(mode)
    \/ handleFileChange(FilePhoto)
    \/ \E i \in 1..Len(encodes) : FileEncoded(i)
    \/ handleReset
    \/ handleGenerate
    \/ ToggleTab("refine")
    \/ TypeFeedback(<<"a">>)
    \/ handleRefineSubmit
    \/ fetchInsights
    \/ setInputType("text")
    \/ setTextInput(<<"c">>)
    \/ handleAnalyze
    \/ handleImportStyle(FilePhoto)

\* every call that was dispatched is answered, and the handler awaiting it
\* is resumed
SpecFlags == Init /\ [][NextFlags]_vars /\ WF_vars(Completions)

\* C35: once a call has completed, with a result or with a failure, and no
\* other call of its view is outstanding, the loading flag that its
\* dispatch set (isLoading of App, isRefining, isInsightLoading, isLoading
\* of StockSensei, isLoading of the wallpaper studio) is false eventually.
NoStuckFlag ==
    /\ (ev.op \in {"generateOk", "generateFail"} /\ Outstanding = 0)
          ~> ~generationState.isLoading
    /\ (ev.op \in {"refineOk", "refineFail"} /\ Outstanding = 0) ~> ~isRefining
    /\ (ev.op \in {"fetchOk", "fetchFail"} /\ fetching = 0) ~> ~isInsightLoading
    /\ (ev.op \in {"analyzeOk", "analyzeFail"} /\ analyses = <<>>) ~> ~seoLoading
    /\ (ev.op \in {"importSaved", "importFailed"} /\ tasks = EmptyBag)
          ~> ~wallState.isLoading


\* a refinement has failed, nothing is outstanding, and the panel with the
\* refine and next-step actions is shown again
NoStuckFlagWitness ==
    /\ ev.op = "refineFail"
    /\ Outstanding = 0
    /\ ~isRefining
    /\ PanelShown


\* C36: in the video phase a confirmed image is attached; a refine submitted
\* in the video phase never takes the "Missing asset context" branch, and
\* the request it dispatches carries the confirmed image as its second
\* media part.
VideoPhaseHasImage ==
    [][/\ phase' = "video-prompt" => generatedImage' # NoMedia
       /\ (ev'.op = "handleRefineSubmit" /\ phase = "video-prompt") =>
             /\ ev'.fault = "none"
             /\ ev'.sent = 1 =>
                   \E c \in BagToSet(calls') :
                      /\ calls' = Dispatch(c)
                      /\ c.recipe = "refineVideo"
                      /\ Len(c.parts) >= 2
                      /\ c.parts[2] = generatedImage
                      /\ c.parts[2] # NoMedia]_vars

\* a video refine request is in flight with the confirmed image in it
VideoPhaseHasImageWitness ==
    /\ ev.op = "handleRefineSubmit"
    /\ ev.sent = 1
    /\ phase = "video-prompt"
    /\ \E c \in InFlight : c.recipe = "refineVideo" /\ c.parts[2] = generatedImage


\* C37: while no handler of the wallpaper studio is suspended at an await,
\* the library read back from local storage is the library in memory, entry
\* by entry and in the same order.
StoredMatchesMemory ==
    tasks = EmptyBag => LoadStyles(stored) = savedStyles


\* C38: the step that handles a style import whose encoding or analysis
\* failed adds no entry: the library in memory, the stored library, the
\* selected style and the active result are as before, the failure is
\* caught and shown in an alert, and the loading flag is false afterwards.
FailedImportAddsNothing ==
    [][ev'.op = "importFailed" =>
          /\ savedStyles' = savedStyles
          /\ stored' = stored
          /\ activeSavedStyle' = activeSavedStyle
          /\ wallState'.result = wallState.result
          /\ ev'.fault = "caught"
          /\ ev'.alert # None
          /\ wallState.isLoading /\ ~wallState'.isLoading]_vars

\* an import failed while the library holds an entry and that entry is selected
FailedImportAddsNothingWitness ==
    /\ ev.op = "importFailed"
    /\ Len(savedStyles) = 1
    /\ activeSavedStyle = savedStyles[1]
    /\ stored = Stringify(savedStyles)

====
